---------------------------- MODULE Spec2Model ----------------------------
(***************************************************************************)
(* A model of py, the Python launcher for Unix (FollowTheProcess/py).      *)
(*                                                                         *)
(* One behaviour of the model is one invocation of the binary: main.run    *)
(* dispatches on the command line, App.Launch walks its control flow, and  *)
(* the invocation ends in a process replacement (syscall.Exec) or in an    *)
(* error returned to main.                                                 *)
(*                                                                         *)
(* Strings are sequences of one-character strings, so that the parsing     *)
(* code (prefix tests, splitting, strconv.Atoi, the two regular            *)
(* expressions) is computed character by character as the Go code does.    *)
(*                                                                         *)
(* The process environment and the file system are outside the program:    *)
(* what they answer is drawn from small sets at the moment the code reads  *)
(* them (os.Getenv, os.Getwd, os.Stat, os.Open, os.ReadDir, syscall.Exec). *)
(***************************************************************************)
EXTENDS Integers, Sequences, FiniteSets, TLC

VARIABLES
    args,          \* os.Args[1:], the command line handed to run
    Path,          \* App.Path, the value of $PATH read by cli.New
    pc,            \* the position of the invocation in run / App.Launch
    launchArgs,    \* the args parameter of App.Launch
    virtualEnv,    \* the value os.Getenv("VIRTUAL_ENV") returned
    cwdErr,        \* whether os.Getwd failed
    statDotVenv,   \* what os.Stat answers for <cwd>/.venv/bin/python
    statVenv,      \* what os.Stat answers for <cwd>/venv/bin/python
    file,          \* what the file system answers for the path args[0]
    pyPython,      \* the value os.Getenv("PY_PYTHON") returned
    dirs,          \* what os.ReadDir answered, per search-path entry
    evaluated,     \* the signals App.Launch has evaluated, in order
    scans,         \* how many times interpreter.GetAll has run
    request,       \* the last LaunchMajor / LaunchExact call and its filtered list
    outcome,       \* how the invocation ended
    fn,            \* the function last called on its own, outside an invocation
    input,         \* the arguments of that call
    result         \* what that call returned

vars == <<args, Path, pc, launchArgs, virtualEnv, cwdErr, statDotVenv, statVenv,
          file, pyPython, dirs, evaluated, scans, request, outcome, fn, input,
          result>>

---------------------------------------------------------------------------
(* Bounds of the model.                                                     *)

\* The longest tail of arguments that follows the optional first argument.
MaxTail == 2
\* The largest minor version of the python3.<minor> executables in a directory.
MaxMinor == 10
\* The largest number of ':'-separated segments of $PATH.
MaxPathSegments == 2

---------------------------------------------------------------------------
(* Strings.                                                                 *)

Digits == {"0", "1", "2", "3", "4", "5", "6", "7", "8", "9"}

\* unicode.IsSpace restricted to the characters the inputs contain.
Space == {" ", "\t"}

DigitVal(c) ==
    CASE c = "0" -> 0 [] c = "1" -> 1 [] c = "2" -> 2 [] c = "3" -> 3
      [] c = "4" -> 4 [] c = "5" -> 5 [] c = "6" -> 6 [] c = "7" -> 7
      [] c = "8" -> 8 [] c = "9" -> 9

\* strings.HasPrefix
HasPrefix(s, prefix) ==
    /\ Len(s) >= Len(prefix)
    /\ SubSeq(s, 1, Len(prefix)) = prefix

\* s[n:]
Drop(s, n) == SubSeq(s, n + 1, Len(s))

\* strings.TrimSpace
RECURSIVE TrimLeft(_)
TrimLeft(s) ==
    IF Len(s) > 0 /\ s[1] \in Space THEN TrimLeft(Tail(s)) ELSE s

RECURSIVE TrimRight(_)
TrimRight(s) ==
    IF Len(s) > 0 /\ s[Len(s)] \in Space
    THEN TrimRight(SubSeq(s, 1, Len(s) - 1))
    ELSE s

TrimSpace(s) == TrimRight(TrimLeft(s))

\* strings.Split(s, sep) for a one-character separator: always at least one part.
RECURSIVE Split(_, _)
Split(s, sep) ==
    IF \A i \in 1..Len(s) : s[i] # sep
    THEN <<s>>
    ELSE LET i == CHOOSE k \in 1..Len(s) :
                      /\ s[k] = sep
                      /\ \A j \in 1..(k - 1) : s[j] # sep
         IN <<SubSeq(s, 1, i - 1)>> \o Split(Drop(s, i), sep)

\* The value of a string of decimal digits.
RECURSIVE DecValue(_)
DecValue(ds) ==
    IF Len(ds) = 0 THEN 0
    ELSE DecValue(SubSeq(ds, 1, Len(ds) - 1)) * 10 + DigitVal(ds[Len(ds)])

RECURSIVE StripZeros(_)
StripZeros(ds) ==
    IF Len(ds) > 1 /\ ds[1] = "0" THEN StripZeros(Tail(ds)) ELSE ds

\* Whether a digit string is beyond the range of a 64-bit int, whose largest
\* value 9223372036854775807 has 19 digits (strconv.ErrRange). Inputs of
\* exactly 19 digits are not drawn, so the length decides.
OutOfRange(ds) == Len(StripZeros(ds)) > 19

\* strconv.Atoi: an optional sign, then one or more decimal digits, within the
\* range of int. ok is err == nil.
Atoi(s) ==
    LET signed == Len(s) > 0 /\ s[1] \in {"+", "-"}
        ds     == IF signed THEN Tail(s) ELSE s
    IN IF Len(ds) = 0 \/ \E i \in 1..Len(ds) : ds[i] \notin Digits
       THEN [ok |-> FALSE, val |-> 0]
       ELSE IF OutOfRange(ds)
       THEN [ok |-> FALSE, val |-> 0]
       ELSE [ok |-> TRUE,
             val |-> IF s[1] = "-" THEN 0 - DecValue(ds) ELSE DecValue(ds)]

\* majorRegex, ^\d+$
majorRegex(s) ==
    /\ Len(s) >= 1
    /\ \A i \in 1..Len(s) : s[i] \in Digits

\* exactRegex, ^\d+\.\d+$
exactRegex(s) ==
    \E k \in 2..(Len(s) - 1) :
        /\ s[k] = "."
        /\ \A i \in 1..Len(s) : i # k => s[i] \in Digits

\* filepath.Base
RECURSIVE StripSlashes(_)
StripSlashes(p) ==
    IF Len(p) > 0 /\ p[Len(p)] = "/"
    THEN StripSlashes(SubSeq(p, 1, Len(p) - 1))
    ELSE p

Base(path) ==
    IF Len(path) = 0 THEN <<".">>
    ELSE LET p     == StripSlashes(path)
             parts == Split(p, "/")
         IN IF Len(p) = 0 THEN <<"/">> ELSE parts[Len(parts)]

\* filepath.Join(dir, name) for a clean dir and a name without a separator.
Join(dir, name) ==
    IF dir = <<".">> THEN name
    ELSE IF dir = <<"/">> THEN dir \o name
    ELSE dir \o <<"/">> \o name

\* The working directory of the invocation.
Cwd == <<"/", "w">>

\* filepath.Abs
Abs(path) ==
    IF HasPrefix(path, <<"/">>) THEN path ELSE Join(Cwd, path)

---------------------------------------------------------------------------
(* Package interpreter.                                                     *)

pythonExePrefix == <<"p", "y", "t", "h", "o", "n">>

NoInterpreter == [Path |-> <<>>, Major |-> 0, Minor |-> 0]

\* Interpreter.FromFilePath, from the two strconv.Atoi calls on: ok is
\* err == nil, and i the Interpreter afterwards.
FromVersionInts(path, majorInt, minorInt) ==
    IF ~majorInt.ok THEN [ok |-> FALSE, i |-> NoInterpreter]
    ELSE IF ~minorInt.ok THEN [ok |-> FALSE, i |-> NoInterpreter]
    ELSE [ok |-> TRUE,
          i  |-> [Path |-> Abs(path), Major |-> majorInt.val, Minor |-> minorInt.val]]

\* Interpreter.FromFilePath, from the strings.Split of the version on.
FromVersionParts(path, parts) ==
    IF Len(parts) # 2 THEN [ok |-> FALSE, i |-> NoInterpreter]
    ELSE FromVersionInts(path, Atoi(parts[1]), Atoi(parts[2]))

\* Interpreter.FromFilePath, from the prefix test of the file name on.
FromFileName(path, filename) ==
    IF ~HasPrefix(filename, pythonExePrefix) THEN [ok |-> FALSE, i |-> NoInterpreter]
    ELSE FromVersionParts(path, Split(Drop(filename, Len(pythonExePrefix)), "."))

\* Interpreter.FromFilePath
FromFilePath(path) == FromFileName(path, Base(path))

\* A mutant of SatisfiesMajor: any interpreter at least as new satisfies.
SatisfiesMajorAtLeast(i, version) == i.Major >= version

\* Interpreter.SatisfiesMajor
SatisfiesMajor(i, version) == i.Major = version

\* A mutant of SatisfiesExact: the minor version is not compared.
SatisfiesExactMajorOnly(i, major, minor) == i.Major = major

\* Interpreter.SatisfiesExact
SatisfiesExact(i, major, minor) == i.Major = major /\ i.Minor = minor

\* A mutant of byVersion.Less: the minor versions compare the other way.
LessOldestFirst(bv, i, j) ==
    IF bv[i].Major > bv[j].Major THEN TRUE
    ELSE IF bv[i].Major = bv[j].Major THEN bv[i].Minor < bv[j].Minor
    ELSE FALSE

\* A mutant of byVersion.Less: only the minor versions are compared.
LessByMinor(bv, i, j) == bv[i].Minor > bv[j].Minor

\* A mutant of byVersion.Less: an interpreter of the same version is Less too.
LessOrSame(bv, i, j) ==
    IF bv[i].Major > bv[j].Major THEN TRUE
    ELSE IF bv[i].Major = bv[j].Major THEN bv[i].Minor >= bv[j].Minor
    ELSE FALSE

\* A mutant of byVersion.Less: a greater minor version is enough.
LessEitherPart(bv, i, j) == bv[i].Major > bv[j].Major \/ bv[i].Minor > bv[j].Minor

\* byVersion.Less
Less(bv, i, j) ==
    IF bv[i].Major > bv[j].Major THEN TRUE
    ELSE IF bv[i].Major = bv[j].Major THEN bv[i].Minor > bv[j].Minor
    ELSE FALSE

\* byVersion.Swap
Swap(bv, i, j) == [bv EXCEPT ![i] = bv[j], ![j] = bv[i]]

\* sort.Sort of the standard library (pdqsort, go 1.19 and later), on the
\* byVersion of interpreters. Its indices start at 0.
maxInsertion == 12

less(data, i, j) == Less(data, i + 1, j + 1)

swap(data, i, j) == Swap(data, i + 1, j + 1)

\* insertionSort: the inner loop, element j sinks towards a while it is Less
\* than the one before it.
RECURSIVE Sink(_, _, _)
Sink(data, j, a) ==
    IF j > a /\ less(data, j, j - 1) THEN Sink(swap(data, j, j - 1), j - 1, a)
    ELSE data

\* insertionSort of data[a:b], from element i on.
RECURSIVE InsertionSort(_, _, _, _)
InsertionSort(data, a, b, i) ==
    IF i >= b THEN data ELSE InsertionSort(Sink(data, i, a), a, b, i + 1)

\* order2
order2(data, a, b, swaps) ==
    IF less(data, b, a) THEN [x |-> b, y |-> a, swaps |-> swaps + 1]
    ELSE [x |-> a, y |-> b, swaps |-> swaps]

\* median: the index of the median of data[a], data[b], data[c], and the
\* number of swaps of indices it took.
median(data, a, b, c) ==
    LET first  == order2(data, a, b, 0)
        second == order2(data, first.y, c, first.swaps)
        third  == order2(data, first.x, second.x, second.swaps)
    IN [pivot |-> third.y, swaps |-> third.swaps]

\* choosePivot for 8 to 49 elements.
choosePivot(data, a, b) ==
    median(data, a + ((b - a) \div 4), a + ((b - a) \div 4) * 2,
           a + ((b - a) \div 4) * 3)

\* partialInsertionSort for fewer than 50 elements: it changes nothing, and
\* returns true if data[a:b] is sorted.
partialInsertionSort(data, a, b) ==
    \A i \in (a + 1)..(b - 1) : ~less(data, i, i - 1)

\* partition: the loops that move i up and j down.
RECURSIVE MoveUp(_, _, _, _)
MoveUp(data, a, i, j) ==
    IF i <= j /\ less(data, i, a) THEN MoveUp(data, a, i + 1, j) ELSE i

RECURSIVE MoveDown(_, _, _, _)
MoveDown(data, a, i, j) ==
    IF i <= j /\ ~less(data, j, a) THEN MoveDown(data, a, i, j - 1) ELSE j

\* partition, after data.Swap(a, pivot): i and j bound the elements that
\* remain to be partitioned.
RECURSIVE Partitioned(_, _, _, _)
Partitioned(data, a, i, j) ==
    LET up   == MoveUp(data, a, i, j)
        down == MoveDown(data, a, up, j)
    IN IF up > down THEN [data |-> swap(data, down, a), mid |-> down]
       ELSE Partitioned(swap(data, up, down), a, up + 1, down - 1)

\* partition
partition(data, a, b, pivot) == Partitioned(swap(data, a, pivot), a, a + 1, b - 1)

\* pdqsort of more than maxInsertion elements, after partition: the two sides
\* are sorted in turn, by insertionSort as neither has more than maxInsertion
\* elements.
SortSides(p, a, b) ==
    InsertionSort(InsertionSort(p.data, a, p.mid, a + 1), p.mid + 1, b, p.mid + 2)

\* pdqsort of data[a:b], of at most maxInsertion + 1 elements: a is 0, the
\* limit is not exhausted and no partition came before.
pdqsort(data, a, b, chosen) ==
    IF b - a <= maxInsertion THEN InsertionSort(data, a, b, a + 1)
    ELSE IF chosen.swaps = 0 /\ partialInsertionSort(data, a, b) THEN data
    ELSE SortSides(partition(data, a, b, chosen.pivot), a, b)

\* interpreter.Sort
Sort(interpreters) ==
    pdqsort(interpreters, 0, Len(interpreters),
            IF Len(interpreters) <= maxInsertion THEN [pivot |-> 0, swaps |-> 0]
            ELSE choosePivot(interpreters, 0, Len(interpreters)))

\* What os.ReadDir can answer for a directory: an error, or its entries' names
\* sorted by file name.
Unreadable == <<<<"!">>>>

\* A mutant of KeepPython3: every parsed interpreter is kept.
KeepAnyMajor(parsed) == IF parsed.ok THEN <<parsed.i>> ELSE <<>>

\* The body of the loop of getPythonInterpreters: what it appends for an entry
\* FromFilePath parsed.
KeepPython3(parsed) ==
    IF parsed.ok /\ SatisfiesMajor(parsed.i, 3) THEN <<parsed.i>> ELSE <<>>

\* getPythonInterpreters, given the entries os.ReadDir returned for dir.
RECURSIVE getPythonInterpreters(_, _)
getPythonInterpreters(dir, contents) ==
    IF Len(contents) = 0 THEN <<>>
    ELSE KeepPython3(FromFilePath(Join(dir, Head(contents))))
             \o getPythonInterpreters(dir, Tail(contents))

\* A mutant of GetAllFrom: what a directory holds is put before what was found
\* so far.
RECURSIVE GetAllFromPrepending(_, _, _)
GetAllFromPrepending(paths, fs, interpreters) ==
    IF Len(paths) = 0 THEN [ok |-> TRUE, list |-> interpreters]
    ELSE IF fs[Head(paths)] = Unreadable THEN [ok |-> FALSE, list |-> <<>>]
    ELSE GetAllFromPrepending(Tail(paths), fs,
                    getPythonInterpreters(Head(paths), fs[Head(paths)]) \o interpreters)

\* A mutant of GetAllFrom: with the error it returns what it found before the
\* directory it could not read.
RECURSIVE GetAllFromKeepingRead(_, _, _)
GetAllFromKeepingRead(paths, fs, interpreters) ==
    IF Len(paths) = 0 THEN [ok |-> TRUE, list |-> interpreters]
    ELSE IF fs[Head(paths)] = Unreadable THEN [ok |-> FALSE, list |-> interpreters]
    ELSE GetAllFromKeepingRead(Tail(paths), fs,
                    interpreters \o getPythonInterpreters(Head(paths), fs[Head(paths)]))

\* interpreter.GetAll: fs maps each path to what os.ReadDir answers for it, and
\* interpreters is what the loop has appended so far.
RECURSIVE GetAllFrom(_, _, _)
GetAllFrom(paths, fs, interpreters) ==
    IF Len(paths) = 0 THEN [ok |-> TRUE, list |-> interpreters]
    ELSE IF fs[Head(paths)] = Unreadable THEN [ok |-> FALSE, list |-> <<>>]
    ELSE GetAllFrom(Tail(paths), fs,
                    interpreters \o getPythonInterpreters(Head(paths), fs[Head(paths)]))

GetAll(paths, fs) == GetAllFrom(paths, fs, <<>>)

---------------------------------------------------------------------------
(* Package cli.                                                             *)

\* filepath.SplitList: the empty string has no element.
SplitList(path) == IF Len(path) = 0 THEN <<>> ELSE Split(path, ":")

VarRun == <<"/", "v", "a", "r", "/", "r", "u", "n">>

\* A mutant of deDupe: an element is dropped only when it repeats the one
\* before it.
deDupeAdjacent(paths) ==
    LET kept == SelectSeq([k \in 1..Len(paths) |-> k],
                          LAMBDA k : k = 1 \/ paths[k] # paths[k - 1])
    IN [k \in 1..Len(kept) |-> paths[kept[k]]]

\* deDupe
RECURSIVE deDupeFrom(_, _)
deDupeFrom(paths, deDuped) ==
    IF Len(paths) = 0 THEN deDuped
    ELSE deDupeFrom(Tail(paths),
                    IF \E k \in 1..Len(deDuped) : deDuped[k] = Head(paths)
                    THEN deDuped
                    ELSE Append(deDuped, Head(paths)))

deDupe(paths) == deDupeFrom(paths, <<>>)

\* A mutant of CollectEntries: the elements under /var/run are kept.
RECURSIVE CollectEntriesWithVarRun(_)
CollectEntriesWithVarRun(list) ==
    IF Len(list) = 0 THEN <<>>
    ELSE <<IF Head(list) = <<>> THEN <<".">> ELSE Head(list)>>
             \o CollectEntriesWithVarRun(Tail(list))

\* The loop of App.getPathEntries over the elements of a.Path.
RECURSIVE CollectEntries(_)
CollectEntries(list) ==
    IF Len(list) = 0 THEN <<>>
    ELSE LET dir == IF Head(list) = <<>> THEN <<".">> ELSE Head(list)
         IN (IF HasPrefix(dir, VarRun) THEN <<>> ELSE <<dir>>)
                \o CollectEntries(Tail(list))

\* A mutant of getPathEntries: the elements are de-duplicated before "." is
\* put for the empty ones.
getPathEntriesDeDupedFirst(path) == CollectEntries(deDupe(SplitList(path)))

\* App.getPathEntries
getPathEntries(path) == deDupe(CollectEntries(SplitList(path)))

\* App.getAllPythonInterpreters
getAllPythonInterpreters(path, fs) == GetAll(getPathEntries(path), fs)

\* exists, given what os.Stat answered: the errno of its error, or "ok".
exists(stat) == ~(stat = "ENOENT")

BinPython == <<"b", "i", "n", "/", "p", "y", "t", "h", "o", "n">>

DotVenv(cwd) == Join(Join(cwd, <<".", "v", "e", "n", "v">>), BinPython)

Venv(cwd) == Join(Join(cwd, <<"v", "e", "n", "v">>), BinPython)

\* A mutant of getVenvPython: venv is preferred over .venv.
getVenvPythonVenvFirst(cwd, sDot, sVenv) ==
    IF exists(sVenv) THEN [exe |-> Venv(cwd), checked |-> <<"venv">>]
    ELSE IF exists(sDot) THEN [exe |-> DotVenv(cwd), checked |-> <<"venv", ".venv">>]
    ELSE [exe |-> <<>>, checked |-> <<"venv", ".venv">>]

\* App.getVenvPython, given what os.Stat answers for the two paths: the path it
\* returns, and the directories whose interpreter it checked, in order.
getVenvPython(cwd, sDot, sVenv) ==
    IF exists(sDot) THEN [exe |-> DotVenv(cwd), checked |-> <<".venv">>]
    ELSE IF exists(sVenv) THEN [exe |-> Venv(cwd), checked |-> <<".venv", "venv">>]
    ELSE [exe |-> <<>>, checked |-> <<".venv", "venv">>]

\* App.parsePyPython, from the strings.Split of the version on.
parsePyPythonParts(parts) ==
    IF Len(parts) # 2 THEN [ok |-> FALSE, major |-> 0, minor |-> 0]
    ELSE IF ~Atoi(parts[1]).ok THEN [ok |-> FALSE, major |-> 0, minor |-> 0]
    ELSE IF ~Atoi(parts[2]).ok THEN [ok |-> FALSE, major |-> 0, minor |-> 0]
    ELSE [ok |-> TRUE, major |-> Atoi(parts[1]).val, minor |-> Atoi(parts[2]).val]

\* App.parsePyPython
parsePyPython(version) == parsePyPythonParts(Split(version, "."))

acceptedPaths ==
    << <<"p", "y", "t", "h", "o", "n">>,
       <<"/", "u", "s", "r", "/", "b", "i", "n", "/", "p", "y", "t", "h", "o", "n">>,
       <<"/", "u", "s", "r", "/", "l", "o", "c", "a", "l", "/", "b", "i", "n", "/",
         "p", "y", "t", "h", "o", "n">>,
       <<"/", "u", "s", "r", "/", "b", "i", "n", "/", "e", "n", "v", " ",
         "p", "y", "t", "h", "o", "n">> >>

\* App.parseShebang, after "#!" and the surrounding whitespace are removed:
\* the text after the first accepted path that is a prefix.
RECURSIVE versionAfter(_, _)
versionAfter(shebang, k) ==
    IF k > Len(acceptedPaths) THEN <<>>
    ELSE IF HasPrefix(shebang, acceptedPaths[k])
    THEN Drop(shebang, Len(acceptedPaths[k]))
    ELSE versionAfter(shebang, k + 1)

\* A mutant of parseShebang: the whitespace after "#!" is not removed.
parseShebangUntrimmed(line) ==
    IF ~HasPrefix(line, <<"#", "!">>) THEN <<>>
    ELSE versionAfter(Drop(line, 2), 1)

\* App.parseShebang
parseShebang(line) ==
    IF ~HasPrefix(line, <<"#", "!">>) THEN <<>>
    ELSE versionAfter(TrimSpace(Drop(line, 2)), 1)

\* A mutant of launch: the environment of the launcher is handed on, as
\* os.Environ() would be.
launchWithEnviron(path, a) ==
    [argv0 |-> path, argv |-> <<Base(path)>> \o a,
     envv |-> <<"PATH", "VIRTUAL_ENV", "PY_PYTHON">>]

\* A mutant of launch: the arguments are not appended to argv.
launchWithoutArgs(path, a) ==
    [argv0 |-> path, argv |-> <<Base(path)>>, envv |-> <<>>]

\* launch: the syscall.Exec call it makes.
launch(path, a) ==
    [argv0 |-> path, argv |-> <<Base(path)>> \o a, envv |-> <<>>]

NoCall == [argv0 |-> <<>>, argv |-> <<>>, envv |-> <<>>]

\* What a Launch* method does: it returns err without launching, or it calls
\* launch. scanned tells whether it ran getAllPythonInterpreters, found is the
\* scanned list and kept the list it filtered from it.
NoRequest == [op |-> "none", major |-> 0, minor |-> 0, found |-> <<>>, kept |-> <<>>]

Fails(err, req) ==
    [kind |-> "error", err |-> err, call |-> NoCall, scanned |-> TRUE, req |-> req]

Launches(path, a, req) ==
    [kind |-> "exec", err |-> "none", call |-> launch(path, a), scanned |-> TRUE,
     req |-> req]

\* The end the three Launch* methods share, scan being what
\* a.getAllPythonInterpreters() returned and kept the filtered list: the scan
\* failed, or nothing was kept, or the first of the sorted list is launched.
LaunchFirst(scan, kept, none, a, req) ==
    IF ~scan.ok THEN Fails("error fetching python interpreters", req)
    ELSE IF Len(kept) = 0 THEN Fails(none, req)
    ELSE Launches(Sort(kept)[1].Path, a, req)

\* App.LaunchLatest
LaunchLatest(a, scan) ==
    LaunchFirst(scan, scan.list, "no python interpreters found on $PATH", a,
                [op |-> "latest", major |-> 0, minor |-> 0,
                 found |-> scan.list, kept |-> scan.list])

\* The loop of App.LaunchMajor that fills supportingInterpreters.
SupportingMajor(interpreters, major) ==
    SelectSeq(interpreters, LAMBDA python : SatisfiesMajor(python, major))

\* App.LaunchMajor
LaunchMajor(major, a, scan) ==
    LaunchFirst(scan, SupportingMajor(scan.list, major),
                "no pythonX interpreters found on $PATH", a,
                [op |-> "major", major |-> major, minor |-> 0,
                 found |-> scan.list, kept |-> SupportingMajor(scan.list, major)])

\* The loop of App.LaunchExact that fills supportingInterpreters.
SupportingExact(interpreters, major, minor) ==
    SelectSeq(interpreters, LAMBDA python : SatisfiesExact(python, major, minor))

\* App.LaunchExact
LaunchExact(major, minor, a, scan) ==
    LaunchFirst(scan, SupportingExact(scan.list, major, minor),
                "no pythonX.Y interpreter found on $PATH", a,
                [op |-> "exact", major |-> major, minor |-> minor,
                 found |-> scan.list,
                 kept |-> SupportingExact(scan.list, major, minor)])

\* What App.handlePotentialShebang does besides: it returns an error before
\* any Launch* method, or it returns nil so that Launch carries on.
Returns(err) ==
    [kind |-> "error", err |-> err, call |-> NoCall, scanned |-> FALSE,
     req |-> NoRequest]

Continues ==
    [kind |-> "continue", err |-> "none", call |-> NoCall, scanned |-> FALSE,
     req |-> NoRequest]

\* The case of App.handlePotentialShebang for a major version.
shebangMajor(major, a, scan) ==
    IF ~major.ok
    THEN Returns("shebang major version could not be parsed an integer")
    ELSE LaunchMajor(major.val, a, scan)

\* The case of App.handlePotentialShebang for an exact version.
shebangExact(exact, a, scan) ==
    IF ~exact.ok
    THEN Returns("malformed PY_PYTHON")
    ELSE LaunchExact(exact.major, exact.minor, a, scan)

\* A mutant of shebangVersion: a version followed by more text is still used.
RECURSIVE LeadingVersion(_)
LeadingVersion(version) ==
    IF Len(version) > 0 /\ version[1] \in Digits \cup {"."}
    THEN <<version[1]>> \o LeadingVersion(Tail(version))
    ELSE <<>>

shebangVersionLenient(version, a, scan) ==
    IF majorRegex(LeadingVersion(version))
    THEN shebangMajor(Atoi(LeadingVersion(version)), a, scan)
    ELSE IF exactRegex(LeadingVersion(version))
    THEN shebangExact(parsePyPython(LeadingVersion(version)), a, scan)
    ELSE Continues

\* The switch of App.handlePotentialShebang on the version parseShebang found.
shebangVersion(version, a, scan) ==
    IF majorRegex(version) THEN shebangMajor(Atoi(version), a, scan)
    ELSE IF exactRegex(version) THEN shebangExact(parsePyPython(version), a, scan)
    ELSE Continues

\* App.handlePotentialShebang after os.Open succeeded; line is scanner.Text().
handlePotentialShebang(line, a, scan) == shebangVersion(parseShebang(line), a, scan)

---------------------------------------------------------------------------
(* Package main.                                                            *)

\* A mutant of isMajorSpecifier: the leading "-" is not removed before the
\* length test.
isMajorSpecifierDashKept(arg) ==
    IF ~HasPrefix(arg, <<"-">>) THEN FALSE
    ELSE IF Len(arg) # 1 THEN FALSE
    ELSE Atoi(arg).ok

\* isMajorSpecifier
isMajorSpecifier(arg) ==
    IF ~HasPrefix(arg, <<"-">>) THEN FALSE
    ELSE IF Len(Tail(arg)) # 1 THEN FALSE
    ELSE Atoi(Tail(arg)).ok

\* parseMajorSpecifier
parseMajorSpecifier(arg) == Atoi(Tail(arg)).val

\* isExactSpecifier, from the strings.Split on.
isExactParts(parts) ==
    IF Len(parts) # 2 THEN FALSE
    ELSE Atoi(parts[1]).ok /\ Atoi(parts[2]).ok

\* isExactSpecifier
isExactSpecifier(arg) ==
    IF ~HasPrefix(arg, <<"-">>) THEN FALSE
    ELSE isExactParts(Split(Tail(arg), "."))

\* parseExactSpecifier, from the strings.Split on.
parseExactParts(parts) ==
    [major |-> Atoi(parts[1]).val, minor |-> Atoi(parts[2]).val]

\* parseExactSpecifier
parseExactSpecifier(arg) == parseExactParts(Split(Tail(arg), "."))

HelpFlag == <<"-", "-", "h", "e", "l", "p">>

ListFlag == <<"-", "-", "l", "i", "s", "t">>

\* A mutant of Dispatch: a flag counts whatever follows it.
DispatchFlagFirst(a) ==
    IF Len(a) = 0 THEN "launch"
    ELSE IF a[1] = HelpFlag THEN "help"
    ELSE IF a[1] = ListFlag THEN "list"
    ELSE IF isMajorSpecifier(a[1]) THEN "major"
    ELSE IF isExactSpecifier(a[1]) THEN "exact"
    ELSE "launch"

\* The case run, handleSingleArg and handleMultipleArgs select for a command line.
Dispatch(a) ==
    IF Len(a) = 0 THEN "launch"
    ELSE IF a[1] = HelpFlag THEN (IF Len(a) = 1 THEN "help" ELSE "flag with arguments")
    ELSE IF a[1] = ListFlag THEN (IF Len(a) = 1 THEN "list" ELSE "flag with arguments")
    ELSE IF isMajorSpecifier(a[1]) THEN "major"
    ELSE IF isExactSpecifier(a[1]) THEN "exact"
    ELSE "launch"

---------------------------------------------------------------------------
(* The inputs of an invocation: the command line and $PATH it starts with,  *)
(* and what the environment and the file system answer when they are read.  *)

RECURSIVE Itoa(_)
Itoa(n) ==
    LET d == <<"0", "1", "2", "3", "4", "5", "6", "7", "8", "9">>[(n % 10) + 1]
    IN IF n < 10 THEN <<d>> ELSE Itoa(n \div 10) \o <<d>>

Script == <<"s", ".", "p", "y">>

Extra == <<"x">>

\* The first argument, when there is one before the tail.
Heads ==
    { <<>>,
      <<<<"-", "3">>>>,
      <<<<"-", "2">>>>,
      <<<<"-", "3", ".", "1", "0">>>>,
      <<<<"-", "2", ".", "7">>>>,
      <<<<"-", "+", "3", ".", "1", "0">>>>,
      <<HelpFlag>>,
      <<ListFlag>> }

\* A tail of k arguments: a script, then further arguments.
TailArgs(k) == [i \in 1..k |-> IF i = 1 THEN Script ELSE Extra]

ArgVectors == {h \o TailArgs(k) : h \in Heads, k \in 0..MaxTail}

\* The values of $PATH: up to MaxPathSegments segments joined by ':'.
Segments == { <<>>, <<"/", "a">>, <<"/", "v", "a", "r", "/", "r", "u", "n">> }

RECURSIVE JoinSegments(_)
JoinSegments(segs) ==
    IF Len(segs) = 0 THEN <<>>
    ELSE IF Len(segs) = 1 THEN segs[1]
    ELSE segs[1] \o <<":">> \o JoinSegments(Tail(segs))

PathValues ==
    {JoinSegments(segs) : segs \in UNION {[1..n -> Segments] : n \in 0..MaxPathSegments}}

\* The entries os.ReadDir can return for a directory, sorted by file name.
Python3(minor) == pythonExePrefix \o <<"3", ".">> \o Itoa(minor)

Python27 == <<"p", "y", "t", "h", "o", "n", "2", ".", "7">>

Listings ==
    { <<>>,
      <<<<"p", "i", "p", "3", ".", "9">>, <<"p", "y", "t", "h", "o", "n">>, Python27, <<"p", "y", "t", "h", "o", "n", "3">>>>,
      <<Python3(9)>>,
      <<Python3(MaxMinor)>>,
      <<Python27>> \o [i \in 1..(MaxMinor - 9) |-> Python3(9 + i)]
          \o <<Python3(9), <<"p", "y", "t", "h", "o", "n", "3", ".", "9", "-", "c", "o", "n", "f", "i", "g">>>> }

DirAnswers == Listings \cup {Unreadable}

\* What os.ReadDir answers for the entries of a search path.
FsAnswers(entries) == [{entries[k] : k \in 1..Len(entries)} -> DirAnswers]

\* The values of $VIRTUAL_ENV: unset, or a directory.
VirtualEnvValues == { <<>>, <<"/", "v">> }

\* The errno of os.Stat's error, or "ok".
StatAnswers == {"ok", "ENOENT", "ENOTDIR", "EACCES"}

LineUsrBinPython3 == <<"#", "!", "/", "u", "s", "r", "/", "b", "i", "n", "/", "p", "y", "t", "h", "o", "n", "3">>

LineEnvPython310 == <<"#", "!", "/", "u", "s", "r", "/", "b", "i", "n", "/", "e", "n", "v", " ", "p", "y", "t", "h", "o", "n", "3", ".", "1", "0">>

LineSpacedPython39 == <<"#", "!", " ", "/", "u", "s", "r", "/", "l", "o", "c", "a", "l", "/", "b", "i", "n", "/", "p", "y", "t", "h", "o", "n", "3", ".", "9", " ">>

LinePython2 == <<"#", "!", "p", "y", "t", "h", "o", "n", "2">>

LineUsrBinPython27 == <<"#", "!", "/", "u", "s", "r", "/", "b", "i", "n", "/", "p", "y", "t", "h", "o", "n", "2", ".", "7">>

LineUsrBinPython == <<"#", "!", "/", "u", "s", "r", "/", "b", "i", "n", "/", "p", "y", "t", "h", "o", "n">>

LineBinSh == <<"#", "!", "/", "b", "i", "n", "/", "s", "h">>

LinePrint == <<"p", "r", "i", "n", "t", "(", "1", ")">>

LinePython3Flag == <<"#", "!", "p", "y", "t", "h", "o", "n", "3", " ", "-", "u">>

LineHugeMajor == <<"#", "!", "p", "y", "t", "h", "o", "n", "9", "9", "9", "9", "9", "9", "9", "9", "9", "9", "9", "9", "9", "9", "9", "9", "9", "9", "9", "9">>

LineHugeMinor == <<"#", "!", "p", "y", "t", "h", "o", "n", "3", ".", "9", "9", "9", "9", "9", "9", "9", "9", "9", "9", "9", "9", "9", "9", "9", "9", "9", "9", "9", "9">>

LineNoHashBang == <<"/", "u", "s", "r", "/", "b", "i", "n", "/", "p", "y", "t", "h", "o", "n", "3">>

FirstLines ==
    { LineUsrBinPython3,
      LineEnvPython310,
      LineSpacedPython39,
      LinePython2,
      LineUsrBinPython27,
      LineUsrBinPython,
      LineBinSh,
      LinePrint,
      LinePython3Flag,
      LineHugeMajor,
      LineHugeMinor,
      LineNoHashBang }

\* The lines of the file named by the argument.
FileContents ==
    {<<>>} \cup {<<l>> : l \in FirstLines} \cup {<<LinePrint, LineUsrBinPython3>>}

\* What os.Stat and os.Open answer for the argument, whether it is a directory,
\* and its lines.
NoFile == [stat |-> "ENOENT", open |-> "ENOENT", dir |-> FALSE, lines |-> <<>>]

FileAnswers ==
    { NoFile,
      [stat |-> "EACCES", open |-> "EACCES", dir |-> FALSE, lines |-> <<>>],
      [stat |-> "ok", open |-> "EACCES", dir |-> FALSE, lines |-> <<>>],
      [stat |-> "ok", open |-> "ok", dir |-> TRUE, lines |-> <<>>] }
    \cup {[stat |-> "ok", open |-> "ok", dir |-> FALSE, lines |-> c] :
             c \in FileContents}

\* scanner.Text() after one scanner.Scan(): the first line, or "" when the
\* read failed or the file has no line.
FirstLine(f) == IF f.dir \/ Len(f.lines) = 0 THEN <<>> ELSE f.lines[1]

PyUnset == <<>>

Py310 == <<"3", ".", "1", "0">>

Py39 == <<"3", ".", "9">>

Py27 == <<"2", ".", "7">>

Py312 == <<"3", ".", "1", "2">>

PyPlus310 == <<"+", "3", ".", "1", "0">>

PyMajorOnly == <<"3">>

PyMinorX == <<"3", ".", "x">>

PyThreeParts == <<"3", ".", "9", ".", "1">>

PySpace39 == <<" ", "3", ".", "9">>

PyNoDot == <<"3", "9">>

\* The values of $PY_PYTHON.
PyPythonValues ==
    { PyUnset,
      Py310,
      Py39,
      Py27,
      Py312,
      PyPlus310,
      PyMajorOnly,
      PyMinorX,
      PyThreeParts,
      PySpace39,
      PyNoDot }

\* What syscall.Exec can answer for a path, given what is known of the file:
\* "ok" replaces the process, anything else is the errno it returns.
ExecAnswers(stat) ==
    CASE stat = "ok"      -> {"ok", "EACCES"}
      [] stat = "unknown" -> {"ok", "ENOENT", "EACCES"}
      [] OTHER            -> {stat}

---------------------------------------------------------------------------
(* The invocation.                                                          *)

NoOutcome ==
    [kind |-> "none", by |-> "none", err |-> "none", errno |-> "none",
     call |-> NoCall, output |-> <<>>]

Init ==
    /\ args \in ArgVectors
    /\ Path \in PathValues
    /\ pc = "run"
    /\ launchArgs = <<>>
    /\ virtualEnv = <<>>
    /\ cwdErr = FALSE
    /\ statDotVenv = "unread"
    /\ statVenv = "unread"
    /\ file = NoFile
    /\ pyPython = <<>>
    /\ dirs = <<>>
    /\ evaluated = <<>>
    /\ scans = 0
    /\ request = NoRequest
    /\ outcome = NoOutcome
    /\ fn = "none"
    /\ input = <<>>
    /\ result = <<>>

\* The invocation ends with an error returned to main.
Error(by, err) ==
    /\ pc' = "done"
    /\ outcome' = [kind |-> "error", by |-> by, err |-> err, errno |-> "none",
                   call |-> NoCall, output |-> <<>>]

\* A mutant of Exec: when syscall.Exec fails before the last step, the
\* invocation goes on to the latest interpreter on $PATH.
ExecThenFallback(by, call, stat) ==
    \E r \in ExecAnswers(stat) :
        /\ pc' = IF r = "ok" \/ pc = "latest" THEN "done" ELSE "latest"
        /\ outcome' = [kind  |-> IF r = "ok" THEN "launched" ELSE "error",
                       by    |-> by,
                       err   |-> IF r = "ok" THEN "none" ELSE "error launching",
                       errno |-> r,
                       call  |-> call,
                       output |-> <<>>]

\* A mutant of ExecReturns: the call returns on success too, as the run of a
\* subprocess would.
ExecReturnsAlways(r) == TRUE

\* Whether syscall.Exec, answering r, returns to launch: on success the
\* process is replaced and nothing of the launcher runs any more.
ExecReturns(r) == r # "ok"

\* The error the invocation ends with after launch called syscall.Exec at step
\* by: the error of launch, "none" when the process was replaced or Launch
\* returned nil and, had LaunchLatest returned nil, the last statement of
\* Launch.
ErrAfterExec(by, r, returned) ==
    IF ~returned THEN "none"
    ELSE IF r # "ok" THEN "error launching"
    ELSE IF by = "latest"
    THEN "no python interpreters found after executing control flow"
    ELSE "none"

\* launch calls syscall.Exec, which replaces the process or returns an error.
Exec(by, call, stat) ==
    /\ pc' = "done"
    /\ \E r \in ExecAnswers(stat) :
           outcome' = [kind  |-> IF ~ExecReturns(r) THEN "launched"
                                 ELSE IF ErrAfterExec(by, r, TRUE) = "none"
                                 THEN "returned"
                                 ELSE "error",
                       by    |-> by,
                       err   |-> ErrAfterExec(by, r, ExecReturns(r)),
                       errno |-> r,
                       call  |-> call,
                       output |-> <<>>]

\* The effect of what a Launch* method or handlePotentialShebang did (r), with
\* fs what os.ReadDir answered if it scanned.
Effect(by, r, fs) ==
    /\ scans' = IF r.scanned THEN scans + 1 ELSE scans
    /\ dirs' = IF r.scanned THEN fs ELSE dirs
    /\ request' = r.req
    /\ IF r.kind = "exec" THEN Exec(by, r.call, "ok") ELSE Error(by, r.err)

\* run, handleSingleArg: --help alone.
Help ==
    /\ pc = "run"
    /\ Dispatch(args) = "help"
    /\ pc' = "done"
    /\ outcome' = [NoOutcome EXCEPT !.kind = "help", !.by = "flag"]
    /\ UNCHANGED <<fn, input, result, args, Path,
                   launchArgs, virtualEnv, cwdErr, statDotVenv,
                   statVenv, file, pyPython, dirs, evaluated, scans, request>>

\* App.List after a.getAllPythonInterpreters() returned scan.
ListFound(scan) ==
    IF ~scan.ok THEN Error("flag", "error fetching python interpreters")
    ELSE IF Len(scan.list) = 0
    THEN Error("flag", "no python interpreters found on $PATH")
    ELSE /\ pc' = "done"
         /\ outcome' = [NoOutcome EXCEPT !.kind = "listed", !.by = "flag",
                                         !.output = Sort(scan.list)]

\* run, handleSingleArg: --list alone, App.List.
List ==
    /\ pc = "run"
    /\ Dispatch(args) = "list"
    /\ \E fs \in FsAnswers(getPathEntries(Path)) :
           /\ scans' = scans + 1
           /\ dirs' = fs
           /\ ListFound(getAllPythonInterpreters(Path, fs))
    /\ UNCHANGED <<fn, input, result, args, Path,
                   launchArgs, virtualEnv, cwdErr, statDotVenv,
                   statVenv, file, pyPython, evaluated, request>>

\* run, handleMultipleArgs: --help or --list followed by arguments.
FlagWithArguments ==
    /\ pc = "run"
    /\ Dispatch(args) = "flag with arguments"
    /\ Error("flag", "cannot use flag with any other arguments")
    /\ UNCHANGED <<fn, input, result, args, Path,
                   launchArgs, virtualEnv, cwdErr, statDotVenv,
                   statVenv, file, pyPython, dirs, evaluated, scans, request>>

\* run, handleSingleArg / handleMultipleArgs: -X, App.LaunchMajor with the
\* arguments after the specifier.
RunLaunchMajor ==
    /\ pc = "run"
    /\ Dispatch(args) = "major"
    /\ \E fs \in FsAnswers(getPathEntries(Path)) :
           Effect("specifier",
                  LaunchMajor(parseMajorSpecifier(args[1]), Tail(args),
                              getAllPythonInterpreters(Path, fs)),
                  fs)
    /\ UNCHANGED <<fn, input, result, args, Path,
                   launchArgs, virtualEnv, cwdErr, statDotVenv,
                   statVenv, file, pyPython, evaluated>>

\* The call of App.LaunchExact with a parsed exact specifier.
LaunchExactSpecifier(v, a, scan) == LaunchExact(v.major, v.minor, a, scan)

\* run, handleSingleArg / handleMultipleArgs: -X.Y, App.LaunchExact with the
\* arguments after the specifier.
RunLaunchExact ==
    /\ pc = "run"
    /\ Dispatch(args) = "exact"
    /\ \E fs \in FsAnswers(getPathEntries(Path)) :
           Effect("specifier",
                  LaunchExactSpecifier(parseExactSpecifier(args[1]), Tail(args),
                                       getAllPythonInterpreters(Path, fs)),
                  fs)
    /\ UNCHANGED <<fn, input, result, args, Path,
                   launchArgs, virtualEnv, cwdErr, statDotVenv,
                   statVenv, file, pyPython, evaluated>>

\* run, handleSingleArg / handleMultipleArgs: anything else calls App.Launch
\* with every argument.
RunLaunch ==
    /\ pc = "run"
    /\ Dispatch(args) = "launch"
    /\ pc' = "VIRTUAL_ENV"
    /\ launchArgs' = args
    /\ UNCHANGED <<fn, input, result, args, Path,
                   virtualEnv, cwdErr, statDotVenv, statVenv, file,
                   pyPython, dirs, evaluated, scans, request, outcome>>

\* App.Launch, 1) the activated virtual environment.
LaunchVirtualEnv ==
    /\ pc = "VIRTUAL_ENV"
    /\ \E path \in VirtualEnvValues :
           /\ virtualEnv' = path
           /\ evaluated' = Append(evaluated, "VIRTUAL_ENV")
           /\ IF path # <<>>
              THEN Exec("VIRTUAL_ENV", launch(Join(path, BinPython), launchArgs),
                        "unknown")
              ELSE pc' = "venv" /\ UNCHANGED outcome
    /\ UNCHANGED <<fn, input, result, args, Path,
                   launchArgs, cwdErr, statDotVenv, statVenv, file,
                   pyPython, dirs, scans, request>>

\* App.Launch, 2) and 3), after getVenvPython returned got.
VenvFound(got, sDot, sVenv) ==
    /\ evaluated' = evaluated \o got.checked
    /\ IF got.exe # <<>>
       THEN Exec(got.checked[Len(got.checked)], launch(got.exe, launchArgs),
                 IF got.exe = DotVenv(Cwd) THEN sDot ELSE sVenv)
       ELSE pc' = "shebang" /\ UNCHANGED outcome

\* App.Launch, 2) and 3) .venv or venv in the working directory.
LaunchVenv ==
    /\ pc = "venv"
    /\ \/ /\ cwdErr' = TRUE
          /\ Error("cwd", "error getting cwd")
          /\ UNCHANGED <<statDotVenv, statVenv, evaluated>>
       \/ \E sDot \in StatAnswers, sVenv \in StatAnswers :
              /\ statDotVenv' = sDot
              /\ statVenv' = sVenv
              /\ UNCHANGED cwdErr
              /\ VenvFound(getVenvPython(Cwd, sDot, sVenv), sDot, sVenv)
    /\ UNCHANGED <<fn, input, result, args, Path,
                   launchArgs, virtualEnv, file, pyPython, dirs,
                   scans, request>>

\* A mutant of ShebangHandled: when the shebang gives no version, the first
\* time the invocation goes back to the virtual environment of the working
\* directory.
ShebangHandledGoingBack(r, fs) ==
    IF r.kind = "continue"
    THEN /\ pc' = IF Len(evaluated) < 5 THEN "venv" ELSE "PY_PYTHON"
         /\ UNCHANGED <<dirs, scans, request, outcome>>
    ELSE Effect("shebang", r, fs)

\* App.Launch, 4), after handlePotentialShebang did r.
ShebangHandled(r, fs) ==
    IF r.kind = "continue"
    THEN pc' = "PY_PYTHON" /\ UNCHANGED <<dirs, scans, request, outcome>>
    ELSE Effect("shebang", r, fs)

\* A mutant of LaunchShebang: a file that cannot be opened is passed over, as
\* one without a shebang line is.
LaunchShebangPassingOver ==
    /\ pc = "shebang"
    /\ IF Len(launchArgs) = 1
       THEN \E f \in FileAnswers, fs \in FsAnswers(getPathEntries(Path)) :
                /\ file' = f
                /\ evaluated' = Append(evaluated, "shebang")
                /\ IF ~exists(f.stat) \/ f.open # "ok"
                   THEN pc' = "PY_PYTHON"
                        /\ UNCHANGED <<dirs, scans, request, outcome>>
                   ELSE ShebangHandled(
                            handlePotentialShebang(FirstLine(f), launchArgs,
                                getAllPythonInterpreters(Path, fs)),
                            fs)
       ELSE pc' = "PY_PYTHON"
            /\ UNCHANGED <<file, evaluated, dirs, scans, request, outcome>>
    /\ UNCHANGED <<fn, input, result, args, Path,
                   launchArgs, virtualEnv, cwdErr, statDotVenv,
                   statVenv, pyPython>>

\* App.Launch, 4) the shebang line of a single argument that exists.
LaunchShebang ==
    /\ pc = "shebang"
    /\ IF Len(launchArgs) = 1
       THEN \E f \in FileAnswers, fs \in FsAnswers(getPathEntries(Path)) :
                /\ file' = f
                /\ evaluated' = Append(evaluated, "shebang")
                /\ IF ~exists(f.stat)
                   THEN pc' = "PY_PYTHON"
                        /\ UNCHANGED <<dirs, scans, request, outcome>>
                   ELSE IF f.open # "ok"
                   THEN Error("shebang", "could not open")
                        /\ UNCHANGED <<dirs, scans, request>>
                   ELSE ShebangHandled(
                            handlePotentialShebang(FirstLine(f), launchArgs,
                                getAllPythonInterpreters(Path, fs)),
                            fs)
       ELSE pc' = "PY_PYTHON"
            /\ UNCHANGED <<file, evaluated, dirs, scans, request, outcome>>
    /\ UNCHANGED <<fn, input, result, args, Path,
                   launchArgs, virtualEnv, cwdErr, statDotVenv,
                   statVenv, pyPython>>

\* App.Launch, 5), after parsePyPython returned v.
PyPythonParsed(v, scan, fs) ==
    IF ~v.ok
    THEN Error("PY_PYTHON", "malformed PY_PYTHON") /\ UNCHANGED <<dirs, scans, request>>
    ELSE Effect("PY_PYTHON", LaunchExact(v.major, v.minor, launchArgs, scan), fs)

\* App.Launch, 5) the PY_PYTHON environment variable.
LaunchPyPython ==
    /\ pc = "PY_PYTHON"
    /\ \E version \in PyPythonValues, fs \in FsAnswers(getPathEntries(Path)) :
           /\ pyPython' = version
           /\ evaluated' = Append(evaluated, "PY_PYTHON")
           /\ IF version # <<>>
              THEN PyPythonParsed(parsePyPython(version),
                                  getAllPythonInterpreters(Path, fs), fs)
              ELSE pc' = "latest" /\ UNCHANGED <<dirs, scans, request, outcome>>
    /\ UNCHANGED <<fn, input, result, args, Path,
                   launchArgs, virtualEnv, cwdErr, statDotVenv,
                   statVenv, file>>

\* App.Launch, 6) the latest interpreter on $PATH. LaunchLatest never returns
\* nil, since syscall.Exec returns only on failure, so the last statement of
\* Launch is not reached.
LaunchFallback ==
    /\ pc = "latest"
    /\ evaluated' = Append(evaluated, "latest")
    /\ \E fs \in FsAnswers(getPathEntries(Path)) :
           Effect("latest",
                  LaunchLatest(launchArgs, getAllPythonInterpreters(Path, fs)), fs)
    /\ UNCHANGED <<fn, input, result, args, Path,
                   launchArgs, virtualEnv, cwdErr, statDotVenv,
                   statVenv, file, pyPython>>

Next ==
    \/ Help
    \/ List
    \/ FlagWithArguments
    \/ RunLaunchMajor
    \/ RunLaunchExact
    \/ RunLaunch
    \/ LaunchVirtualEnv
    \/ LaunchVenv
    \/ LaunchShebang
    \/ LaunchPyPython
    \/ LaunchFallback

Spec == Init /\ [][Next]_vars


---------------------------------------------------------------------------
(* The claims.                                                              *)

\* The order in which App.Launch is said to evaluate its signals.
Order == <<"VIRTUAL_ENV", ".venv", "venv", "shebang", "PY_PYTHON", "latest">>

Position(step) == CHOOSE k \in 1..Len(Order) : Order[k] = step

\* Whether a step, once evaluated, decides the outcome.
Applies(step) ==
    CASE step = "VIRTUAL_ENV" -> virtualEnv # <<>>
      [] step = ".venv"       -> statDotVenv # "ENOENT"
      [] step = "venv"        -> statVenv # "ENOENT"
      [] step = "shebang"     ->
             /\ file.stat # "ENOENT"
             /\ \/ file.open # "ok"
                \/ majorRegex(parseShebang(FirstLine(file)))
                \/ exactRegex(parseShebang(FirstLine(file)))
      [] step = "PY_PYTHON"   -> pyPython # <<>>
      [] step = "latest"      -> TRUE

\* C1: App.Launch evaluates its signals in the fixed order VIRTUAL_ENV, .venv,
\* venv, shebang (only with a single argument), PY_PYTHON, latest, skipping
\* none; every step evaluated before the last did not apply; and once the
\* invocation has ended, the last step evaluated is the one that applied and
\* the one that decided the outcome, so that no later step was evaluated. A
\* failure of os.Getwd ends the invocation between the first two steps.
C1_FixedOrder ==
    /\ \A i \in 1..Len(evaluated) : \E k \in 1..Len(Order) : Order[k] = evaluated[i]
    /\ \A i, j \in 1..Len(evaluated) :
           i < j => Position(evaluated[i]) < Position(evaluated[j])
    /\ \A i \in 1..Len(evaluated) : \A k \in 1..(Position(evaluated[i]) - 1) :
           \/ \E j \in 1..(i - 1) : evaluated[j] = Order[k]
           \/ Order[k] = "shebang" /\ Len(launchArgs) # 1
    /\ \A i \in 1..(Len(evaluated) - 1) : ~Applies(evaluated[i])
    /\ (pc = "done" /\ outcome.by \notin {"flag", "specifier"}) =>
           /\ outcome.kind \in {"launched", "error"}
           /\ Len(evaluated) >= 1
           /\ \/ outcome.by = "cwd" /\ evaluated = <<"VIRTUAL_ENV">> /\ cwdErr
              \/ /\ outcome.by = evaluated[Len(evaluated)]
                 /\ Applies(outcome.by)

\* C1, its case: PY_PYTHON decided a launch after the four steps before it
\* were evaluated and did not apply.
C1_Witness ==
    /\ pc = "done"
    /\ outcome.kind = "launched"
    /\ outcome.by = "PY_PYTHON"
    /\ evaluated = <<"VIRTUAL_ENV", ".venv", "venv", "shebang", "PY_PYTHON">>

\* The version specifiers among the first arguments.
MajorSpecifiers == { <<"-", "3">>, <<"-", "2">> }

ExactSpecifiers == { <<"-", "3", ".", "1", "0">>, <<"-", "2", ".", "7">> }

FirstIsSpecifier ==
    Len(args) > 0 /\ args[1] \in MajorSpecifiers \cup ExactSpecifiers

\* Whether a candidate satisfies the constraint a specifier states.
Meets(specifier, c) ==
    CASE specifier = <<"-", "3">> -> c.Major = 3
      [] specifier = <<"-", "2">> -> c.Major = 2
      [] specifier = <<"-", "3", ".", "1", "0">> -> c.Major = 3 /\ c.Minor = 10
      [] specifier = <<"-", "2", ".", "7">> -> c.Major = 2 /\ c.Minor = 7

\* C2: when the first argument is a version specifier, App.Launch is never
\* entered: VIRTUAL_ENV, the working directory's .venv and venv, the file
\* argument and PY_PYTHON are never read; the search path is scanned once; if
\* no candidate found satisfies the constraint the invocation ends in an error
\* without a launch, and otherwise it launches a candidate found on the search
\* path that satisfies the constraint, with the arguments after the specifier.
C2_SpecifierBypasses ==
    FirstIsSpecifier =>
        /\ pc \in {"run", "done"}
        /\ evaluated = <<>>
        /\ virtualEnv = <<>> /\ ~cwdErr
        /\ statDotVenv = "unread" /\ statVenv = "unread"
        /\ file = NoFile /\ pyPython = <<>>
        /\ pc = "done" =>
               /\ outcome.by = "specifier"
               /\ scans = 1
               /\ IF \A k \in 1..Len(request.found) : ~Meets(args[1], request.found[k])
                  THEN outcome.kind = "error" /\ outcome.call = NoCall
                  ELSE /\ outcome.kind \in {"launched", "error"}
                       /\ \E k \in 1..Len(request.found) :
                              /\ Meets(args[1], request.found[k])
                              /\ outcome.call.argv0 = request.found[k].Path
                       /\ Tail(outcome.call.argv) = Tail(args)

\* C2, its cases: a specifier followed by a script launched a candidate, and a
\* specifier no candidate satisfies ended in an error.
C2_Witness ==
    /\ pc = "done"
    /\ args = << <<"-", "3", ".", "1", "0">>, Script >>
    /\ outcome.kind = "launched"
    /\ Len(request.found) > 1

\* Whether candidate c is at least as new as candidate d: the major versions
\* compared first and the minor versions second, as integers.
AtLeastAsNew(c, d) ==
    \/ c.Major > d.Major
    \/ c.Major = d.Major /\ c.Minor >= d.Minor

\* The candidate for the entry python3.<minor> of the search-path directory d.
CandidateAt(d, minor) ==
    [Path  |-> IF d = <<".">> THEN Cwd \o <<"/">> \o Python3(minor)
               ELSE d \o <<"/">> \o Python3(minor),
     Major |-> 3, Minor |-> minor]

\* Whether os.ReadDir listed python3.<minor> in the search-path directory d.
Listed(d, minor) == \E k \in 1..Len(dirs[d]) : dirs[d][k] = Python3(minor)

\* C3: when LaunchLatest has run, and the scan did not fail, every
\* python3.<minor> listed in a directory of the search path is a candidate
\* found; if no candidate was found the invocation ends with the error "no
\* python interpreters found on $PATH" and launches nothing; otherwise it
\* launches, with the arguments of Launch, a candidate at least as new as every
\* candidate found (so python3.10 rather than python3.9).
C3_LatestIsNewest ==
    (pc = "done" /\ outcome.by = "latest") =>
        IF \E d \in DOMAIN dirs : dirs[d] = Unreadable
        THEN outcome.kind = "error" /\ outcome.call = NoCall
        ELSE /\ \A d \in DOMAIN dirs : \A minor \in 0..MaxMinor :
                    Listed(d, minor) =>
                        \E k \in 1..Len(request.found) :
                            request.found[k] = CandidateAt(d, minor)
             /\ IF Len(request.found) = 0
                THEN /\ outcome.kind = "error"
                     /\ outcome.err = "no python interpreters found on $PATH"
                     /\ outcome.call = NoCall
                ELSE /\ \E k \in 1..Len(request.found) :
                            /\ outcome.call.argv0 = request.found[k].Path
                            /\ \A j \in 1..Len(request.found) :
                                   AtLeastAsNew(request.found[k], request.found[j])
                     /\ Tail(outcome.call.argv) = launchArgs

\* C3, its case: python3.9 and python3.10 were both found and the latest was
\* launched.
C3_Witness ==
    /\ pc = "done"
    /\ outcome.by = "latest"
    /\ outcome.kind = "launched"
    /\ \E j, k \in 1..Len(request.found) :
           request.found[j].Minor = 9 /\ request.found[k].Minor = 10


\* Whether the scan of the search path failed: os.ReadDir returned an error for
\* one of its directories.
ScanFailed == \E d \in DOMAIN dirs : dirs[d] = Unreadable

\* C4: when LaunchMajor(N) has run (through a -N specifier or a shebang), the
\* candidates it keeps are exactly the candidates found with major N: every
\* kept one was found and has major N, and every found one with major N is
\* kept. If no candidate found has major N, the invocation ends in the error
\* "no pythonN interpreters found" and launches nothing; otherwise it launches
\* a kept candidate whose minor is the largest among the kept ones.
C4_MajorKeepsExactly ==
    (pc = "done" /\ request.op = "major") =>
        /\ outcome.by = "specifier" =>
               request.major = (IF args[1] = <<"-", "3">> THEN 3 ELSE 2)
        /\ \A k \in 1..Len(request.kept) :
               /\ request.kept[k].Major = request.major
               /\ \E j \in 1..Len(request.found) : request.found[j] = request.kept[k]
        /\ \A j \in 1..Len(request.found) :
               request.found[j].Major = request.major =>
                   \E k \in 1..Len(request.kept) : request.kept[k] = request.found[j]
        /\ IF ScanFailed
           THEN outcome.kind = "error" /\ outcome.call = NoCall
           ELSE IF \A j \in 1..Len(request.found) :
                       request.found[j].Major # request.major
           THEN /\ outcome.kind = "error"
                /\ outcome.err = "no pythonX interpreters found on $PATH"
                /\ outcome.call = NoCall
           ELSE \E k \in 1..Len(request.kept) :
                    /\ outcome.call.argv0 = request.kept[k].Path
                    /\ \A j \in 1..Len(request.kept) :
                           request.kept[k].Minor >= request.kept[j].Minor

\* C4, its case: LaunchMajor(3) kept python3.9 and python3.10 and launched.
C4_Witness ==
    /\ pc = "done"
    /\ request.op = "major"
    /\ request.major = 3
    /\ outcome.kind = "launched"
    /\ \E j, k \in 1..Len(request.kept) :
           request.kept[j].Minor = 9 /\ request.kept[k].Minor = 10

\* C5: when LaunchExact(N, M) has run (through a -N.M specifier, a shebang or
\* PY_PYTHON), every candidate it keeps has major N and minor M, and it launches
\* only a kept candidate. If no candidate found has that version, the
\* invocation ends in the error "no pythonN.M interpreter found" and launches
\* nothing; reached through PY_PYTHON, the invocation ends there and the latest
\* interpreter is not evaluated.
C5_ExactKeepsOnly ==
    (pc = "done" /\ request.op = "exact") =>
        /\ (outcome.by = "PY_PYTHON" /\ pyPython = Py39) =>
               request.major = 3 /\ request.minor = 9
        /\ (outcome.by = "PY_PYTHON" /\ pyPython = Py310) =>
               request.major = 3 /\ request.minor = 10
        /\ \A k \in 1..Len(request.kept) :
               /\ request.kept[k].Major = request.major
               /\ request.kept[k].Minor = request.minor
               /\ \E j \in 1..Len(request.found) : request.found[j] = request.kept[k]
        /\ IF ScanFailed
           THEN outcome.kind = "error" /\ outcome.call = NoCall
           ELSE IF \A j \in 1..Len(request.found) :
                       ~(/\ request.found[j].Major = request.major
                         /\ request.found[j].Minor = request.minor)
           THEN /\ outcome.kind = "error"
                /\ outcome.err = "no pythonX.Y interpreter found on $PATH"
                /\ outcome.call = NoCall
           ELSE \E k \in 1..Len(request.kept) :
                    outcome.call.argv0 = request.kept[k].Path
        /\ outcome.by = "PY_PYTHON" =>
               /\ evaluated[Len(evaluated)] = "PY_PYTHON"
               /\ \A i \in 1..Len(evaluated) : evaluated[i] # "latest"

\* C5, its case: PY_PYTHON=3.9 launched python3.9 although python3.10 was found
\* as well.
C5_Witness ==
    /\ pc = "done"
    /\ outcome.by = "PY_PYTHON"
    /\ pyPython = Py39
    /\ outcome.kind = "launched"
    /\ \E j, k \in 1..Len(request.found) :
           request.found[j].Minor = 9 /\ request.found[k].Minor = 10

\* C6: once VIRTUAL_ENV was read with a non-empty value D, the invocation has
\* ended at that step with the call of D/bin/python on every argument, the
\* search path was not scanned and no file was examined (.venv, venv and the
\* argument are unread); the call either replaced the process or failed, and
\* its failure is an error of the launch, no other step being evaluated.
C6_VirtualEnvImmediate ==
    virtualEnv # <<>> =>
        /\ pc = "done"
        /\ outcome.by = "VIRTUAL_ENV"
        /\ evaluated = <<"VIRTUAL_ENV">>
        /\ outcome.call =
               [argv0 |-> virtualEnv \o <<"/">> \o BinPython,
                argv  |-> <<<<"p", "y", "t", "h", "o", "n">>>> \o args,
                envv  |-> <<>>]
        /\ scans = 0 /\ dirs = <<>>
        /\ statDotVenv = "unread" /\ statVenv = "unread" /\ file = NoFile
        /\ pyPython = <<>>
        /\ \/ outcome.kind = "launched"
           \/ /\ outcome.kind = "error"
              /\ outcome.err = "error launching"
              /\ outcome.errno # "none"

\* C6, its case: D/bin/python does not exist, and the launch of it with two
\* arguments failed.
C6_Witness ==
    /\ virtualEnv # <<>>
    /\ Len(args) = 2
    /\ outcome.kind = "error"
    /\ outcome.errno = "ENOENT"


\* Whether what os.Stat answered shows that the path names no file: a missing
\* entry, or a component of the path that is not a directory.
NoSuchFile(stat) == stat \in {"ENOENT", "ENOTDIR"}

\* C7: once Launch has called getVenvPython, what it returns for the answers of
\* os.Stat is <cwd>/.venv/bin/python whenever that file exists;
\* <cwd>/venv/bin/python only when .venv/bin/python does not exist and
\* venv/bin/python exists; the empty string when neither file exists; and a
\* path it returns names a file that exists. Both paths lie in cwd itself.
C7_VenvPythonExists ==
    statDotVenv # "unread" =>
        /\ statDotVenv = "ok" =>
               getVenvPython(Cwd, statDotVenv, statVenv).exe = DotVenv(Cwd)
        /\ getVenvPython(Cwd, statDotVenv, statVenv).exe = Venv(Cwd) =>
               NoSuchFile(statDotVenv) /\ ~NoSuchFile(statVenv)
        /\ (NoSuchFile(statDotVenv) /\ NoSuchFile(statVenv)) =>
               getVenvPython(Cwd, statDotVenv, statVenv).exe = <<>>
        /\ getVenvPython(Cwd, statDotVenv, statVenv).exe = DotVenv(Cwd) =>
               ~NoSuchFile(statDotVenv)
        /\ DotVenv(Cwd) = Cwd \o <<"/", ".", "v", "e", "n", "v", "/">> \o BinPython
        /\ Venv(Cwd) = Cwd \o <<"/", "v", "e", "n", "v", "/">> \o BinPython

\* C7, the failing case: .venv is not a directory, getVenvPython returned
\* <cwd>/.venv/bin/python all the same, and the launch of it failed.
C7_Witness ==
    /\ pc = "done"
    /\ statDotVenv = "ENOTDIR"
    /\ outcome.by = ".venv"
    /\ outcome.call.argv0 = DotVenv(Cwd)
    /\ outcome.kind = "error"

\* Whether Launch has evaluated its shebang step.
ShebangEvaluated == \E i \in 1..Len(evaluated) : evaluated[i] = "shebang"

\* Whether Launch went on to its PY_PYTHON step.
ReachedPyPython ==
    pc = "PY_PYTHON" \/ \E i \in 1..Len(evaluated) : evaluated[i] = "PY_PYTHON"

\* The version a first line states after an accepted interpreter prefix: none,
\* a major-only version or a major.minor version, and whether its numbers fit
\* an int.
NoHint == [kind |-> "none", major |-> 0, minor |-> 0, fits |-> TRUE]

Hint(line) ==
    CASE line = LineUsrBinPython3  -> [kind |-> "major", major |-> 3, minor |-> 0, fits |-> TRUE]
      [] line = LinePython2        -> [kind |-> "major", major |-> 2, minor |-> 0, fits |-> TRUE]
      [] line = LineHugeMajor      -> [kind |-> "major", major |-> 0, minor |-> 0, fits |-> FALSE]
      [] line = LineEnvPython310   -> [kind |-> "exact", major |-> 3, minor |-> 10, fits |-> TRUE]
      [] line = LineSpacedPython39 -> [kind |-> "exact", major |-> 3, minor |-> 9, fits |-> TRUE]
      [] line = LineUsrBinPython27 -> [kind |-> "exact", major |-> 2, minor |-> 7, fits |-> TRUE]
      [] line = LineHugeMinor      -> [kind |-> "exact", major |-> 3, minor |-> 0, fits |-> FALSE]
      [] OTHER                     -> NoHint

\* The hint of the file named by the argument: that of its first line.
FileHint ==
    IF file.stat # "ok" \/ file.open # "ok" \/ file.dir \/ Len(file.lines) = 0
    THEN NoHint
    ELSE Hint(file.lines[1])

\* The shebang step resolved as the Launch* method of the hint h, forwarding
\* the file as the argument.
ResolvedAs(h) ==
    /\ pc = "done"
    /\ outcome.by = "shebang"
    /\ request.op = h.kind
    /\ request.major = h.major
    /\ request.minor = h.minor
    /\ scans = 1
    /\ outcome.kind = "launched" => Tail(outcome.call.argv) = <<Script>>

\* The shebang step ended the invocation in an error before any scan.
FatalAtShebang ==
    /\ pc = "done"
    /\ outcome.by = "shebang"
    /\ outcome.kind = "error"
    /\ outcome.call = NoCall
    /\ request = NoRequest
    /\ scans = 0

\* The shebang step fell through to the PY_PYTHON step.
FellThrough == outcome.by # "shebang" /\ ReachedPyPython

PyPythonEvaluated == \E i \in 1..Len(evaluated) : evaluated[i] = "PY_PYTHON"

\* The values of PY_PYTHON of the form digits.digits.
DigitsDotDigits == {Py310, Py39, Py27, Py312}

\* C9: once Launch has read a non-empty PY_PYTHON that is not of the form
\* digits.digits, the invocation has ended at that step in the error
\* "malformed PY_PYTHON", without a scan and without a launch.
C9_MalformedIsFatal ==
    (PyPythonEvaluated /\ pyPython # <<>> /\ pyPython \notin DigitsDotDigits) =>
        /\ pc = "done"
        /\ outcome.by = "PY_PYTHON"
        /\ outcome.kind = "error"
        /\ outcome.err = "malformed PY_PYTHON"
        /\ outcome.call = NoCall
        /\ request.op # "exact"

\* C9, the failing case: PY_PYTHON=+3.10 launched python3.10.
C9_Witness ==
    /\ pc = "done"
    /\ pyPython = PyPlus310
    /\ outcome.by = "PY_PYTHON"
    /\ outcome.kind = "launched"
    /\ outcome.call.argv[1] = Python3(10)

\* Whether the invocation ended in a request for python2: a -2 or -2.7
\* specifier, a python2 or python2.7 shebang, or PY_PYTHON=2.7.
Python2Requested ==
    \/ Len(args) > 0 /\ args[1] \in { <<"-", "2">>, <<"-", "2", ".", "7">> }
    \/ /\ outcome.by = "shebang"
       /\ FileHint.kind # "none"
       /\ FileHint.major = 2
    \/ outcome.by = "PY_PYTHON" /\ pyPython = Py27

\* C10: no candidate found by a scan of the search path, and none listed by
\* --list, has major version 2, whatever the directories contain; an
\* invocation that ended in a request for python2 ended in an error without a
\* launch; and no launch decided by a scan is a launch of python2.7.
C10_NoPython2 ==
    /\ \A k \in 1..Len(request.found) : request.found[k].Major # 2
    /\ \A k \in 1..Len(outcome.output) : outcome.output[k].Major # 2
    /\ (pc = "done" /\ Python2Requested) =>
           /\ outcome.kind = "error"
           /\ outcome.call = NoCall
    /\ (pc = "done" /\ outcome.by \in {"specifier", "shebang", "PY_PYTHON", "latest"}
            /\ outcome.call # NoCall) =>
           outcome.call.argv[1] # Python27

\* C10, its case: -2 ended in an error although a directory of the search path
\* lists python2.7.
C10_Witness ==
    /\ pc = "done"
    /\ args[1] = <<"-", "2">>
    /\ outcome.kind = "error"
    /\ \E d \in DOMAIN dirs : \E k \in 1..Len(dirs[d]) : dirs[d][k] = Python27

\* C13: when a directory of the search path cannot be read, the scan returns
\* an error and no candidate, not even those of the directories read before,
\* and the resolution or listing that asked for the scan fails with that
\* error: nothing is listed and nothing is launched.
C13_UnreadableAborts ==
    (scans > 0 /\ ScanFailed) =>
        /\ request.found = <<>>
        /\ request.kept = <<>>
        /\ outcome.kind = "error"
        /\ outcome.err = "error fetching python interpreters"
        /\ outcome.call = NoCall
        /\ outcome.output = <<>>

\* C13: $PATH is "/a:", /a holds python3.9 and the working directory cannot
\* be read: the fallback to the latest interpreter fails.
C13_Witness ==
    /\ Path = <<"/", "a", ":">>
    /\ scans = 1
    /\ dirs[<<"/", "a">>] = <<Python3(9)>>
    /\ dirs[<<".">>] = Unreadable
    /\ outcome.kind = "error"
    /\ outcome.by = "latest"
    /\ request.found = <<>>


---------------------------------------------------------------------------
(* Calls of single functions, outside an invocation: the functions of the   *)
(* packages are called on arguments drawn from small sets, and what they    *)
(* return is recorded.                                                      *)

\* One function is called, once, and no invocation is in progress.
Idle ==
    /\ pc = "calls"
    /\ pc' = "called"
    /\ UNCHANGED <<args, Path, launchArgs, virtualEnv, cwdErr, statDotVenv,
                   statVenv, file, pyPython, dirs, evaluated, scans, request,
                   outcome>>

InitCalls ==
    /\ args = <<>>
    /\ Path = <<>>
    /\ pc = "calls"
    /\ launchArgs = <<>>
    /\ virtualEnv = <<>>
    /\ cwdErr = FALSE
    /\ statDotVenv = "unread"
    /\ statVenv = "unread"
    /\ file = NoFile
    /\ pyPython = <<>>
    /\ dirs = <<>>
    /\ evaluated = <<>>
    /\ scans = 0
    /\ request = NoRequest
    /\ outcome = NoOutcome
    /\ fn = "none"
    /\ input = <<>>
    /\ result = <<>>

\* The number of nines of a version component that does not fit an int.
Nines == [i \in 1..20 |-> "9"]

\* The text before and after the '.' of the file names python<a>.<b>.
MajorTexts ==
    { <<"3">>, <<"2">>, <<"4">>, <<"0", "3">>, <<"+", "3">>, <<"-", "3">>,
      <<>>, <<" ", "3">>, <<"p">>, Nines }

MinorTexts ==
    { <<"7">>, <<"1", "0">>, <<"0">>, <<"0", "9">>, <<"+", "9">>, <<"-", "9">>,
      <<>>, <<"7", " ">>, <<"f">>, <<"9", ".", "8">>, Nines }

\* The file names FromFilePath is called on.
FileNames ==
    {pythonExePrefix \o a \o <<".">> \o b : a \in MajorTexts, b \in MinorTexts}
      \cup { pythonExePrefix,
             pythonExePrefix \o <<"3">>,
             pythonExePrefix \o <<"3", "9">>,
             pythonExePrefix \o <<" ", "3", ".", "7">>,
             pythonExePrefix \o <<"3", ".", "9", "-", "c", "o", "n", "f", "i", "g">>,
             <<"P", "y", "t", "h", "o", "n", "3", ".", "9">>,
             <<"d", "i", "n", "g", "l", "e", "3", ".", "7">>,
             <<"b", "i", "n", " ">> \o pythonExePrefix \o <<" ", "3", ".", "7">>,
             <<"p", "i", "p", "3", ".", "9">> }

\* The paths FromFilePath is called on: a name under a directory, or alone.
FilePaths ==
    {<<"/", "b", "/">> \o name : name \in FileNames} \cup FileNames

\* A call of Interpreter.FromFilePath on a zero Interpreter.
CallFromFilePath ==
    /\ Idle
    /\ \E path \in FilePaths :
           /\ fn' = "FromFilePath"
           /\ input' = path
           /\ result' = FromFilePath(path)

\* The most directories GetAll is called on.
MaxDirs == 2

\* The directories GetAll is called on.
ScanDirs == { <<"/", "a">>, <<"/", "b">> }

\* The entries a directory can hold, sorted by file name as os.ReadDir
\* returns them.
EntryNames ==
    << <<"p", "i", "p", "3", ".", "9">>,
       Python27,
       pythonExePrefix \o <<"3">>,
       Python3(10),
       Python3(9),
       pythonExePrefix \o <<"4", ".", "0">> >>

\* Entries whose version is written with a sign or a leading zero, sorted by
\* file name.
SignedNames ==
    << pythonExePrefix \o <<"+", "3", ".", "7">>,
       pythonExePrefix \o <<"0", "3", ".", "9">>,
       pythonExePrefix \o <<"3", ".", "-", "9">>,
       Python3(9) >>

\* What os.ReadDir can answer for one of ScanDirs.
ScanAnswers ==
    {SelectSeq(EntryNames, LAMBDA name : name \in held) :
         held \in SUBSET {EntryNames[k] : k \in 1..Len(EntryNames)}}
      \cup {SelectSeq(SignedNames, LAMBDA name : name \in held) :
                held \in SUBSET {SignedNames[k] : k \in 1..Len(SignedNames)}}
      \cup {Unreadable}

\* A call of interpreter.GetAll.
CallGetAll ==
    /\ Idle
    /\ \E paths \in UNION {[1..n -> ScanDirs] : n \in 0..MaxDirs},
          fs \in [ScanDirs -> ScanAnswers] :
           /\ fn' = "GetAll"
           /\ input' = [paths |-> paths, fs |-> fs]
           /\ result' = GetAll(paths, fs)

\* The longest list Sort is called on.
MaxList == 4

\* The interpreters of the lists Sort is called on: two of them of the same
\* version.
Found ==
    { [Path |-> <<"/", "a", "/">> \o Python27, Major |-> 2, Minor |-> 7],
      [Path |-> <<"/", "a", "/">> \o Python3(9), Major |-> 3, Minor |-> 9],
      [Path |-> <<"/", "b", "/">> \o Python3(9), Major |-> 3, Minor |-> 9],
      [Path |-> <<"/", "a", "/">> \o Python3(10), Major |-> 3, Minor |-> 10],
      [Path |-> <<"/", "a", "/">> \o Python3(11), Major |-> 3, Minor |-> 11],
      [Path |-> <<"/", "a", "/">> \o pythonExePrefix \o <<"4", ".", "0">>,
       Major |-> 4, Minor |-> 0] }

\* The directories of a search path that holds one interpreter more than
\* sort.Sort sorts by insertion alone.
Letters == <<"a", "b", "c", "d", "e", "f", "g", "h", "i", "j", "k", "l", "m">>

\* The interpreters found on it, one in each directory: python3.9 but in the
\* directories k and l.
Long(k, l, atk, atl) ==
    [i \in 1..Len(Letters) |->
        [Path  |-> <<"/", Letters[i], "/">>
                       \o Python3(IF i = k THEN atk ELSE IF i = l THEN atl ELSE 9),
         Major |-> 3,
         Minor |-> IF i = k THEN atk ELSE IF i = l THEN atl ELSE 9]]

LongLists ==
    {Long(k, l, atk, atl) : k \in 1..Len(Letters), l \in 1..Len(Letters),
                            atk \in {8, 9, 10}, atl \in {8, 9, 10}}

\* A call of interpreter.Sort.
CallSort ==
    /\ Idle
    /\ \E interpreters \in UNION {[1..n -> Found] : n \in 0..MaxList} \cup LongLists :
           /\ fn' = "Sort"
           /\ input' = interpreters
           /\ result' = Sort(interpreters)

\* The most elements of the lists deDupe is called on, and of the search
\* paths getPathEntries is called on.
MaxEntries == 4

\* The elements of the lists deDupe is called on.
Entries == { <<"/", "a">>, <<"/", "b">>, <<".">> }

\* A call of deDupe.
CallDeDupe ==
    /\ Idle
    /\ \E paths \in UNION {[1..n -> Entries] : n \in 0..MaxEntries} :
           /\ fn' = "deDupe"
           /\ input' = paths
           /\ result' = deDupe(paths)

\* The elements of the search paths getPathEntries is called on.
PathElements ==
    { <<>>, <<".">>, <<"/", "a">>, <<"/", "b">>, VarRun \o <<"/", "x">> }

\* The search path of the tests of getPathEntries with several empty
\* elements: /usr/bin::/usr/local/bin::/usr/somewhere:
SeveralEmpty ==
    << <<"/", "u", "s", "r", "/", "b", "i", "n">>,
       <<>>,
       <<"/", "u", "s", "r", "/", "l", "o", "c", "a", "l", "/", "b", "i", "n">>,
       <<>>,
       <<"/", "u", "s", "r", "/", "s", "o", "m", "e", "w", "h", "e", "r", "e">>,
       <<>> >>

\* A call of App.getPathEntries with a.Path the elements joined by ':'.
CallGetPathEntries ==
    /\ Idle
    /\ \E elements \in UNION {[1..n -> PathElements] : n \in 0..MaxEntries}
                           \cup {SeveralEmpty} :
           /\ fn' = "getPathEntries"
           /\ input' = [elements |-> elements, Path |-> JoinSegments(elements)]
           /\ result' = getPathEntries(JoinSegments(elements))

\* The arguments the specifier functions of main are called on: '-' before a
\* single text, '-' before two texts with a '.' between, and those without
\* the '-'.
Specifiers ==
    LET texts == MajorTexts \cup {a \o <<".">> \o b : a \in MajorTexts, b \in MinorTexts}
    IN {<<"-">> \o t : t \in texts} \cup texts \cup {HelpFlag, <<"-", "3", "9">>}

\* What handleSingleArg and handleMultipleArgs learn of an argument: whether
\* it is a major or an exact specifier and, if so, the version parsed from it.
SpecifierOf(arg, isMajor, isExact) ==
    [isMajor |-> isMajor,
     isExact |-> isExact,
     major   |-> IF isMajor THEN parseMajorSpecifier(arg)
                 ELSE IF isExact THEN parseExactSpecifier(arg).major
                 ELSE 0,
     minor   |-> IF isExact THEN parseExactSpecifier(arg).minor ELSE 0]

\* A call of isMajorSpecifier and isExactSpecifier, and of the parse function
\* of the one that returned true.
CallSpecifier ==
    /\ Idle
    /\ \E arg \in Specifiers :
           /\ fn' = "specifier"
           /\ input' = arg
           /\ result' = SpecifierOf(arg, isMajorSpecifier(arg), isExactSpecifier(arg))

\* The lines parseShebang is called on: a beginning, a path and what follows
\* the path.
ShebangLines ==
    {begin \o path \o after :
        begin \in { <<"#", "!">>, <<"#", "!", " ">>, <<"#">>, <<>>, <<"!", "#">>,
                    <<" ", "#", "!">> },
        path  \in {acceptedPaths[k] : k \in 1..Len(acceptedPaths)}
                    \cup { <<"/", "b", "i", "n", "/", "s", "h">>,
                           <<"P", "y", "t", "h", "o", "n">>,
                           <<"/", "u", "s", "r", "/", "b", "i", "n", "/", "e", "n", "v",
                             " ", " ", "p", "y", "t", "h", "o", "n">>,
                           <<"/", "o", "p", "t", "/", "p", "y", "t", "h", "o", "n">>,
                           <<"p", "y", "t", "h", "o">> },
        after \in { <<>>, <<"3">>, <<"3", ".", "1", "0">>, <<"3", ".", "9", " ">>,
                    <<" ", "-", "u">>, <<"2", ".", "7">>, <<"w">> }}

\* A call of App.parseShebang.
CallParseShebang ==
    /\ Idle
    /\ \E line \in ShebangLines :
           /\ fn' = "parseShebang"
           /\ input' = line
           /\ result' = parseShebang(line)

\* A call of byVersion.Less on every pair of three interpreters.
CallLess ==
    /\ Idle
    /\ \E bv \in [1..3 -> Found] :
           /\ fn' = "Less"
           /\ input' = bv
           /\ result' = [i \in 1..3 |-> [j \in 1..3 |-> Less(bv, i, j)]]

NextCalls ==
    \/ CallFromFilePath
    \/ CallGetAll
    \/ CallSort
    \/ CallDeDupe
    \/ CallGetPathEntries
    \/ CallSpecifier
    \/ CallParseShebang
    \/ CallLess

Calls == InitCalls /\ [][NextCalls]_vars

---------------------------------------------------------------------------
(* The claims about single functions.                                       *)

\* The text of a path after its last '/'.
AfterLastSlash(path) ==
    IF \A i \in 1..Len(path) : path[i] # "/" THEN path
    ELSE SubSeq(path,
                1 + (CHOOSE k \in 1..Len(path) :
                         /\ path[k] = "/"
                         /\ \A j \in (k + 1)..Len(path) : path[j] # "/"),
                Len(path))

\* Whether a text is one or more decimal digits.
IsDigits(t) == Len(t) >= 1 /\ \A i \in 1..Len(t) : t[i] \in Digits

\* The number a text of decimal digits denotes.
RECURSIVE NumberOf(_)
NumberOf(t) ==
    IF Len(t) = 0 THEN 0
    ELSE DigitVal(Head(t)) * 10 ^ (Len(t) - 1) + NumberOf(Tail(t))

\* Whether name is 'python', digits, one '.', digits, the '.' at position dot.
IsVersionName(name, dot) ==
    /\ dot \in 1..Len(name)
    /\ name[dot] = "."
    /\ SubSeq(name, 1, 6) = <<"p", "y", "t", "h", "o", "n">>
    /\ IsDigits(SubSeq(name, 7, dot - 1))
    /\ IsDigits(SubSeq(name, dot + 1, Len(name)))

\* C11: FromFilePath succeeds if and only if the base name of the path is
\* 'python', digits, one '.', digits and nothing else; on success Major and
\* Minor are the numbers those digits denote; on failure the Interpreter is
\* left at its zero value.
C11_FromFilePathIff ==
    fn = "FromFilePath" =>
        /\ result.ok <=>
               \E dot \in 1..Len(input) : IsVersionName(AfterLastSlash(input), dot)
        /\ result.ok =>
               \A dot \in 1..Len(input) :
                   IsVersionName(AfterLastSlash(input), dot) =>
                       /\ result.i.Major =
                              NumberOf(SubSeq(AfterLastSlash(input), 7, dot - 1))
                       /\ result.i.Minor =
                              NumberOf(SubSeq(AfterLastSlash(input), dot + 1,
                                              Len(AfterLastSlash(input))))
        /\ ~result.ok => result.i = NoInterpreter

\* C11, the failing case: /b/python+3.7 is parsed as python 3.7.
C11_Witness ==
    /\ fn = "FromFilePath"
    /\ input = <<"/", "b", "/">> \o pythonExePrefix \o <<"+", "3", ".", "7">>
    /\ result.ok
    /\ result.i.Major = 3
    /\ result.i.Minor = 7

\* Whether FromFilePath parses the entry name of dir.
Parses(dir, name) == FromFilePath(Join(dir, name)).ok

\* The Interpreter FromFilePath makes of the entry name of dir.
CandidateOf(dir, name) == FromFilePath(Join(dir, name)).i

\* The candidates of a directory in listing order: one for every entry that
\* parses and, with only3, is a python 3.
CandidatesOf(dir, listing, only3) ==
    LET eligible ==
            SelectSeq(listing,
                      LAMBDA name : /\ Parses(dir, name)
                                    /\ only3 => CandidateOf(dir, name).Major = 3)
    IN [k \in 1..Len(eligible) |-> CandidateOf(dir, eligible[k])]

\* The candidates of the directories, in the order of the directories.
RECURSIVE Concatenation(_, _, _)
Concatenation(paths, fs, only3) ==
    IF Len(paths) = 0 THEN <<>>
    ELSE CandidatesOf(Head(paths), fs[Head(paths)], only3)
             \o Concatenation(Tail(paths), fs, only3)

\* Whether os.ReadDir succeeds for every directory of paths.
AllReadable(paths, fs) == \A k \in 1..Len(paths) : fs[paths[k]] # Unreadable

\* C12, as stated: over readable directories GetAll returns, in the order of
\* the directories, each directory's candidates in listing order, the
\* candidates being exactly the entries whose name parses as a version.
C12_EveryParsedEntry ==
    (fn = "GetAll" /\ AllReadable(input.paths, input.fs)) =>
        /\ result.ok
        /\ result.list = Concatenation(input.paths, input.fs, FALSE)

\* C12, amended: over readable directories GetAll returns, in the order of
\* the directories, each directory's candidates in listing order, the
\* candidates being exactly the entries whose name parses as a version of
\* python 3; entries that do not parse, or parse as another major version,
\* are skipped.
C12_EveryPython3Entry ==
    (fn = "GetAll" /\ AllReadable(input.paths, input.fs)) =>
        /\ result.ok
        /\ result.list = Concatenation(input.paths, input.fs, TRUE)

\* C12: /b then /a scanned, both holding python3.9 among other entries: two
\* candidates, /b's first.
C12_Witness ==
    /\ fn = "GetAll"
    /\ input.paths = << <<"/", "b">>, <<"/", "a">> >>
    /\ input.fs[<<"/", "a">>] = <<Python27, pythonExePrefix \o <<"3">>, Python3(10), Python3(9)>>
    /\ input.fs[<<"/", "b">>] = <<EntryNames[1], Python3(9), EntryNames[6]>>
    /\ result.ok
    /\ result.list =
           << [Path |-> <<"/", "b", "/">> \o Python3(9), Major |-> 3, Minor |-> 9],
              [Path |-> <<"/", "a", "/">> \o Python3(10), Major |-> 3, Minor |-> 10],
              [Path |-> <<"/", "a", "/">> \o Python3(9), Major |-> 3, Minor |-> 9] >>

\* C14: after ranking, of two candidates the one that comes first has the
\* greater major version, or the same major version and a minor version at
\* least as great, whatever the list and its order were.
C14_RankedNewestFirst ==
    fn = "Sort" =>
        \A a \in 1..Len(result), b \in 1..Len(result) :
            a < b =>
                \/ result[a].Major > result[b].Major
                \/ /\ result[a].Major = result[b].Major
                   /\ result[a].Minor >= result[b].Minor

\* C14: a list of four in which python3.9 precedes python3.10 and python2.7
\* precedes python4.0 has been ranked.
C14_Witness ==
    /\ fn = "Sort"
    /\ Len(input) = 4
    /\ <<input[1].Major, input[1].Minor>> = <<2, 7>>
    /\ <<input[2].Major, input[2].Minor>> = <<3, 9>>
    /\ <<input[3].Major, input[3].Minor>> = <<4, 0>>
    /\ <<input[4].Major, input[4].Minor>> = <<3, 10>>
    /\ <<result[1].Minor, result[2].Minor, result[3].Minor, result[4].Minor>>
           = <<0, 10, 9, 7>>

\* Where x occurs first in a list.
FirstOccurrence(list, x) ==
    CHOOSE k \in 1..Len(list) : list[k] = x /\ \A j \in 1..(k - 1) : list[j] # x

\* Whether out is list without the repeats of its elements: nothing is
\* repeated, the elements are those of list, and they are in the order of
\* their first occurrence in list.
WithoutRepeats(out, list) ==
    /\ \A i \in 1..Len(out), j \in 1..Len(out) : i < j => out[i] # out[j]
    /\ {out[k] : k \in 1..Len(out)} = {list[k] : k \in 1..Len(list)}
    /\ \A i \in 1..Len(out), j \in 1..Len(out) :
           i < j => FirstOccurrence(list, out[i]) < FirstOccurrence(list, out[j])

\* C15: deDupe returns a list without repeated element, whose elements are
\* those of its input in the order of their first occurrence there.
C15_DeDupeFirstOccurrences ==
    fn = "deDupe" => WithoutRepeats(result, input)

\* C15: deDupe has dropped the repeats of a list where they are not adjacent.
C15_Witness ==
    /\ fn = "deDupe"
    /\ input = << <<"/", "b">>, <<"/", "a">>, <<"/", "b">>, <<"/", "a">> >>
    /\ result = << <<"/", "b">>, <<"/", "a">> >>

\* The elements of a search path as directories: "." for an empty element.
AsDirectories(elements) ==
    [k \in 1..Len(elements) |-> IF elements[k] = <<>> THEN <<".">> ELSE elements[k]]

\* C16, as stated: getPathEntries returns the elements of the search path,
\* "." standing for each empty element, without repeats and in the order of
\* their first occurrence; an empty search path gives an empty list.
C16_EveryElement ==
    fn = "getPathEntries" =>
        IF input.Path = <<>> THEN result = <<>>
        ELSE WithoutRepeats(result, AsDirectories(input.elements))

\* C16, amended: getPathEntries returns the elements of the search path that
\* do not begin with /var/run, "." standing for each empty element, without
\* repeats and in the order of their first occurrence; an empty search path
\* gives an empty list.
C16_ElementsOutsideVarRun ==
    fn = "getPathEntries" =>
        IF input.Path = <<>> THEN result = <<>>
        ELSE WithoutRepeats(result,
                            SelectSeq(AsDirectories(input.elements),
                                      LAMBDA dir : ~HasPrefix(dir, VarRun)))

\* C16: the search path /usr/bin::/usr/local/bin::/usr/somewhere: has given
\* /usr/bin, ., /usr/local/bin, /usr/somewhere.
C16_Witness ==
    /\ fn = "getPathEntries"
    /\ input.elements = SeveralEmpty
    /\ result = <<SeveralEmpty[1], <<".">>, SeveralEmpty[3], SeveralEmpty[5]>>

\* Whether arg is '-', digits, one '.', digits, the '.' at position dot.
IsExactForm(arg, dot) ==
    /\ dot \in 1..Len(arg)
    /\ arg[1] = "-"
    /\ arg[dot] = "."
    /\ IsDigits(SubSeq(arg, 2, dot - 1))
    /\ IsDigits(SubSeq(arg, dot + 1, Len(arg)))

\* C17: isMajorSpecifier is true exactly for '-' and one decimal digit, and
\* isExactSpecifier exactly for '-', digits, one '.', digits; the parse
\* functions return the numbers those digits denote.
C17_SpecifierForms ==
    fn = "specifier" =>
        /\ result.isMajor <=>
               (Len(input) = 2 /\ input[1] = "-" /\ input[2] \in Digits)
        /\ result.isMajor => result.major = DigitVal(input[2])
        /\ result.isExact <=> \E dot \in 1..Len(input) : IsExactForm(input, dot)
        /\ result.isExact =>
               \A dot \in 1..Len(input) :
                   IsExactForm(input, dot) =>
                       /\ result.major = NumberOf(SubSeq(input, 2, dot - 1))
                       /\ result.minor = NumberOf(SubSeq(input, dot + 1, Len(input)))

\* C17, the failing case: --3.10 is taken for an exact specifier.
C17_Witness ==
    /\ fn = "specifier"
    /\ input = <<"-", "-", "3", ".", "1", "0">>
    /\ result.isExact
    /\ result.minor = 10

\* C18: the argument vector of every launch is the base name of the
\* executable followed by the forwarded arguments in their order: every
\* argument of the command line, less the first when it is a version
\* specifier -X or -X.Y.
C18_ArgvForwarded ==
    outcome.call # NoCall =>
        outcome.call.argv =
            <<AfterLastSlash(outcome.call.argv0)>>
                \o (IF FirstIsSpecifier THEN Tail(args) ELSE args)

\* C18, the failing case: -+3.10, which is not of the form -X.Y, is followed
\* by the script and python3.10 is launched on the script alone.
C18_Witness ==
    /\ args = << <<"-", "+", "3", ".", "1", "0">>, Script >>
    /\ ~FirstIsSpecifier
    /\ outcome.by = "specifier"
    /\ outcome.call # NoCall
    /\ outcome.call.argv = <<Python3(10), Script>>

\* Whether the command line is --help or --list followed by further arguments.
FlagThenArguments ==
    /\ Len(args) >= 2
    /\ args[1] \in {HelpFlag, ListFlag}

\* C19: --help or --list followed by further arguments makes run return an
\* error: no help is printed, nothing is listed, $PATH is not scanned, no step
\* of the launch is evaluated and nothing is launched. --help alone prints
\* the help, returns no error and launches nothing.
C19_FlagsAlone ==
    /\ FlagThenArguments =>
           /\ pc \in {"run", "done"}
           /\ scans = 0
           /\ evaluated = <<>>
           /\ pc = "done" =>
                  /\ outcome.kind = "error"
                  /\ outcome.err = "cannot use flag with any other arguments"
                  /\ outcome.output = <<>>
                  /\ outcome.call = NoCall
    /\ args = <<HelpFlag>> =>
           /\ pc \in {"run", "done"}
           /\ scans = 0
           /\ evaluated = <<>>
           /\ pc = "done" =>
                  /\ outcome.kind = "help"
                  /\ outcome.err = "none"
                  /\ outcome.call = NoCall

\* C19: --list followed by a script and a further argument has ended in the
\* error.
C19_Witness ==
    /\ args = <<ListFlag, Script, Extra>>
    /\ pc = "done"
    /\ outcome.kind = "error"
    /\ outcome.by = "flag"

\* C20: a step runs only while no outcome was produced, and the step that
\* attempts a launch, or fails otherwise, produces the outcome and is the
\* last; until then the invocation can always take a step, and it is over
\* exactly when the outcome was produced. So the launch is attempted at most
\* once, the outcome is produced exactly once, and nothing runs after an
\* attempt, successful or not.
C20_OneAttemptOneOutcome ==
    /\ [][/\ outcome = NoOutcome
          /\ pc # "done"
          /\ outcome' # NoOutcome <=> pc' = "done"
          /\ outcome'.call # NoCall => pc' = "done"]_vars
    /\ [](pc = "done" <=> outcome # NoOutcome)
    /\ [](pc = "done" \/ ENABLED Next)

\* C20: the launch of the interpreter of VIRTUAL_ENV was attempted and failed,
\* and the invocation is over with no other step evaluated.
C20_Witness ==
    /\ pc = "done"
    /\ outcome.by = "VIRTUAL_ENV"
    /\ outcome.call # NoCall
    /\ outcome.kind = "error"
    /\ evaluated = <<"VIRTUAL_ENV">>
    /\ scans = 0

\* C21: Launch never returns the error of its last statement: once the
\* fallback to the latest interpreter was evaluated, the invocation has ended
\* in a launch that replaced the process, in the error of the launch, in the
\* error that $PATH holds no interpreter or in the error of the scan.
C21_LastStatementUnreachable ==
    /\ outcome.err # "no python interpreters found after executing control flow"
    /\ outcome.by = "latest" =>
           \/ outcome.kind = "launched"
           \/ /\ outcome.kind = "error"
              /\ outcome.err \in {"error launching",
                                  "no python interpreters found on $PATH",
                                  "error fetching python interpreters"}

\* C21: the fallback has launched the latest interpreter, and syscall.Exec
\* replaced the process.
C21_Witness ==
    /\ evaluated = <<"VIRTUAL_ENV", ".venv", "venv", "PY_PYTHON", "latest">>
    /\ outcome.by = "latest"
    /\ outcome.kind = "launched"
    /\ outcome.errno = "ok"

\* The positions of an invocation in the order of the control flow.
Flow == <<"run", "VIRTUAL_ENV", "venv", "shebang", "PY_PYTHON", "latest", "done">>

Rank(position) == CHOOSE k \in 1..Len(Flow) : Flow[k] = position

\* C22: every step moves the invocation forward in the order of the checks,
\* so that no check is visited twice and at most six steps are taken; until
\* it is over the invocation can always take a step; and when App.Launch is
\* over it has launched an interpreter (Resolved) or returned an error
\* (Failed).
C22_ForwardToTheEnd ==
    /\ [][Rank(pc') > Rank(pc)]_vars
    /\ [](\A i, j \in 1..Len(evaluated) : i # j => evaluated[i] # evaluated[j])
    /\ [](pc \in {Flow[k] : k \in 1..Len(Flow)})
    /\ [](pc # "done" => ENABLED Next)
    /\ []((pc = "done" /\ outcome.by \notin {"flag", "specifier"}) =>
              outcome.kind \in {"launched", "error"})

\* C22: an invocation went through every check and failed at the last, $PATH
\* holding no interpreter.
C22_Witness ==
    /\ pc = "done"
    /\ evaluated = Order
    /\ outcome.kind = "error"
    /\ outcome.err = "no python interpreters found on $PATH"

\* The candidates of a list that have the version of candidate c, in the
\* order of the list.
OfVersion(list, c) ==
    SelectSeq(list, LAMBDA d : d.Major = c.Major /\ d.Minor = c.Minor)

\* C23: ranking is stable: the candidates of one version are, after the
\* ranking, in the order they had before it.
C23_RankingStable ==
    fn = "Sort" =>
        \A k \in 1..Len(input) : OfVersion(result, input[k]) = OfVersion(input, input[k])

\* C23, the failing case: thirteen directories of the search path hold
\* python3.8 in the first and python3.9 in the others; after the ranking the
\* first is /g/python3.9, not /b/python3.9.
C23_Witness ==
    /\ fn = "Sort"
    /\ input = Long(1, 1, 8, 8)
    /\ result[1].Path = <<"/", "g", "/">> \o Python3(9)
    /\ result[2].Path = <<"/", "b", "/">> \o Python3(9)

\* Whether a list is ranked: of two candidates the one that comes first is
\* not older than the other.
Ranked(list) ==
    \A a \in 1..Len(list), b \in 1..Len(list) :
        a < b =>
            \/ list[a].Major > list[b].Major
            \/ list[a].Major = list[b].Major /\ list[a].Minor >= list[b].Minor

\* C24: ranking is idempotent: the ranking of a ranked list is that list, the
\* same candidates with the same paths at the same positions; so is the
\* ranking of the list a ranking returned.
C24_RankingIdempotent ==
    fn = "Sort" =>
        /\ Ranked(input) => result = input
        /\ Sort(result) = result

\* C24: a ranked list that holds python3.9 of two directories was ranked.
C24_Witness ==
    /\ fn = "Sort"
    /\ Len(input) = 4
    /\ input[1].Minor = 10
    /\ input[2].Path = <<"/", "b", "/">> \o Python3(9)
    /\ input[3].Path = <<"/", "a", "/">> \o Python3(9)
    /\ input[4].Major = 2
    /\ result = input

\* C25: every candidate of a scan has a major and a minor version that are
\* not negative, and the name of its file is 'python' followed by exactly the
\* decimal text of the major version, '.', and that of the minor version.
C25_NameIsVersion ==
    (fn = "GetAll" /\ result.ok) =>
        \A k \in 1..Len(result.list) :
            /\ result.list[k].Major >= 0
            /\ result.list[k].Minor >= 0
            /\ AfterLastSlash(result.list[k].Path) =
                   pythonExePrefix \o Itoa(result.list[k].Major) \o <<".">>
                       \o Itoa(result.list[k].Minor)

\* C25, the failing case: the scan of a directory that holds python03.9 and
\* python3.-9 has given a candidate 3.9 for the first and 3.-9 for the second.
C25_Witness ==
    /\ fn = "GetAll"
    /\ input.paths = << <<"/", "a">> >>
    /\ input.fs[<<"/", "a">>] = <<SignedNames[2], SignedNames[3]>>
    /\ result.ok
    /\ Len(result.list) = 2
    /\ result.list[1].Path = <<"/", "a", "/">> \o SignedNames[2]
    /\ <<result.list[1].Major, result.list[1].Minor>> = <<3, 9>>
    /\ <<result.list[2].Major, result.list[2].Minor>> = <<3, -9>>

\* A text without the whitespace around it.
Stripped(t) ==
    IF \A i \in 1..Len(t) : t[i] \in Space THEN <<>>
    ELSE SubSeq(t,
                CHOOSE i \in 1..Len(t) :
                    t[i] \notin Space /\ \A j \in 1..(i - 1) : t[j] \in Space,
                CHOOSE i \in 1..Len(t) :
                    t[i] \notin Space /\ \A j \in (i + 1)..Len(t) : t[j] \in Space)

\* The four paths a python shebang may begin with.
PythonPaths ==
    { <<"p", "y", "t", "h", "o", "n">>,
      <<"/", "u", "s", "r", "/", "b", "i", "n", "/", "p", "y", "t", "h", "o", "n">>,
      <<"/", "u", "s", "r", "/", "l", "o", "c", "a", "l", "/", "b", "i", "n", "/",
        "p", "y", "t", "h", "o", "n">>,
      <<"/", "u", "s", "r", "/", "b", "i", "n", "/", "e", "n", "v", " ",
        "p", "y", "t", "h", "o", "n">> }

\* Whether a text begins with a path.
BeginsWith(t, path) == Len(t) >= Len(path) /\ SubSeq(t, 1, Len(path)) = path

\* What parseShebang is to return for a line that starts with '#!', rest
\* being the line without '#!' and the whitespace around what follows.
VersionOf(rest, version) ==
    IF \E path \in PythonPaths : BeginsWith(rest, path)
    THEN \E path \in PythonPaths :
             /\ BeginsWith(rest, path)
             /\ version = SubSeq(rest, Len(path) + 1, Len(rest))
    ELSE version = <<>>

\* C26: parseShebang returns the empty string for a line that does not start
\* with '#!'; otherwise, '#!' and the surrounding whitespace removed, it
\* returns the text that follows the one of the four python paths the rest
\* begins with, and the empty string if the rest begins with none.
C26_ParseShebang ==
    fn = "parseShebang" =>
        IF Len(input) >= 2 /\ input[1] = "#" /\ input[2] = "!"
        THEN VersionOf(Stripped(SubSeq(input, 3, Len(input))), result)
        ELSE result = <<>>

\* C26: '#! /usr/bin/env python3.9 ' has given 3.9.
C26_Witness ==
    /\ fn = "parseShebang"
    /\ input = <<"#", "!", " ", "/", "u", "s", "r", "/", "b", "i", "n", "/", "e", "n",
                 "v", " ", "p", "y", "t", "h", "o", "n", "3", ".", "9", " ">>
    /\ result = <<"3", ".", "9">>

\* C27: Less(a, b) is true exactly when a has the greater major version, or
\* the same and a greater minor version; it is irreflexive, asymmetric and
\* transitive, and two candidates are incomparable exactly when they have the
\* same major and minor version.
C27_StrictWeakOrder ==
    fn = "Less" =>
        /\ \A i, j \in 1..3 :
               /\ result[i][j] <=>
                      \/ input[i].Major > input[j].Major
                      \/ /\ input[i].Major = input[j].Major
                         /\ input[i].Minor > input[j].Minor
               /\ result[i][j] => ~result[j][i]
               /\ (~result[i][j] /\ ~result[j][i]) <=>
                      /\ input[i].Major = input[j].Major
                      /\ input[i].Minor = input[j].Minor
        /\ \A i \in 1..3 : ~result[i][i]
        /\ \A i, j, k \in 1..3 : (result[i][j] /\ result[j][k]) => result[i][k]

\* C27: Less was called on python4.0, python3.9 of /a and python3.9 of /b:
\* the first is Less than both, which are incomparable.
C27_Witness ==
    /\ fn = "Less"
    /\ <<input[1].Major, input[1].Minor>> = <<4, 0>>
    /\ <<input[2].Major, input[2].Minor>> = <<3, 9>>
    /\ <<input[3].Major, input[3].Minor>> = <<3, 9>>
    /\ input[2].Path # input[3].Path
    /\ result[1][2] /\ result[1][3]
    /\ ~result[2][3] /\ ~result[3][2]

\* The directories a search path of the given segments names that are not
\* under /var/run, "." standing for an empty segment.
OutsideVarRun(segs) ==
    {dir \in {AsDirectories(segs)[k] : k \in 1..Len(segs)} : ~HasPrefix(dir, VarRun)}

C29_UnopenableFileFails ==
    (Len(evaluated) > 0 /\ evaluated[Len(evaluated)] = "shebang"
        /\ exists(file.stat) /\ file.open # "ok") =>
        /\ pc = "done"
        /\ outcome.kind = "error"
        /\ outcome.by = "shebang"
        /\ outcome.err = "could not open"
        /\ outcome.call = NoCall
        /\ pyPython = <<>>
        /\ scans = 0
        /\ request = NoRequest

\* C29: the single argument exists, os.Open answered EACCES, and the
\* invocation has failed at the shebang step.
C29_Witness ==
    /\ Len(launchArgs) = 1
    /\ evaluated = <<"VIRTUAL_ENV", ".venv", "venv", "shebang">>
    /\ file.stat = "ok"
    /\ file.open = "EACCES"
    /\ pc = "done"
    /\ outcome.err = "could not open"
    /\ outcome.call = NoCall

\* C30: whichever step resolved the interpreter, the syscall.Exec call of
\* launch has an empty environment: no variable of the launcher is passed on.
C30_EmptyEnvironment ==
    outcome.call # NoCall =>
        /\ outcome.by \in {"specifier", "VIRTUAL_ENV", ".venv", "venv", "shebang",
                           "PY_PYTHON", "latest"}
        /\ outcome.call.envv = <<>>

\* C30: with $PATH and PY_PYTHON set, the PY_PYTHON step has launched an
\* interpreter, and the call has no environment.
C30_Witness ==
    /\ Path # <<>>
    /\ pyPython # <<>>
    /\ outcome.kind = "launched"
    /\ outcome.by = "PY_PYTHON"
    /\ outcome.call.argv0 # <<>>
    /\ outcome.call.envv = <<>>

===========================================================================
